---- MODULE Spec2Model ----
(***************************************************************************)
(* Lega.AI document pipeline: the chunker (_chunk_document / chunk_text),  *)
(* the vector index (VectorStoreService) and the annotator                 *)
(* (create_advanced_highlighting).                                         *)
(*                                                                         *)
(* A Python str is a sequence of one-character strings; indices of the     *)
(* source are 0-based and are kept 0-based here, sequences are 1-based.    *)
(***************************************************************************)
EXTENDS Integers, Sequences, FiniteSets, TLC

VARIABLES
    \* ---- chunker: one call of _chunk_document / chunk_text
    ck_pc,          \* "off" | "loop" | "done"
    ck_fn,          \* which of the two chunkers runs
    ck_text,        \* argument text
    ck_chunk_size,  \* argument chunk_size
    ck_overlap,     \* argument overlap
    ck_start,       \* local start
    ck_chunks,      \* local chunks (list of str)
    ck_windows,     \* history: <<start, end>> of every chunk appended, in order
    ck_result,      \* the returned list, or "none" while the call runs
    \* ---- index: VectorStoreService and the calls running on it
    vector_store,   \* the Chroma collection: id -> [content, embedding, metadata]
    calls,          \* thread -> the add_document / remove_document call it runs
    ix_prev,        \* history: the call completed last before the current one
    ix_ncalls,      \* history: number of calls entered so far
    \* ---- annotator: one call of create_advanced_highlighting
    hl_pc,               \* "off" | "risk" | "apply_risk" | "jargon" | "apply_jargon" | "done"
    hl_text,             \* argument text
    risk_factors,        \* argument risk_factors: list of dicts
    jargon_definitions,  \* argument jargon_definitions: dict, as its items in order
    highlighted_text,    \* local highlighted_text; the return value when done
    processed_positions, \* local processed_positions (only membership is used)
    risk_replacements,   \* local risk_replacements
    jargon_replacements, \* local jargon_replacements
    \* ---- index: one search call of VectorStoreService
    sx_pc,          \* "off" | "idle" | "search" | "done"
    sx_call,        \* the method called and its arguments
    sx_dist,        \* the distances the embedding service gave the search
    sx_found,       \* what similarity_search_with_score returned
    sx_raised,      \* the embedding service or the collection raised
    sx_result,      \* the return value, or "none" while the call runs
    \* ---- pages: one Streamlit session (st.session_state) and its handlers
    ap_pc,             \* "off" | "idle" | position in process_uploaded_document
    current_document,  \* st.session_state.current_document, "none" for None
    documents_library, \* st.session_state.documents_library
    qa_history,        \* st.session_state.qa_history
    qa_asked,          \* history: the id of the document each exchange was asked about
    confirm_delete,    \* the doc ids whose confirm_delete_<id> key is set
    ap_handler,        \* history: the handler entered last, with its arguments
    ap_trace,          \* history: the service calls that handler has made
    ap_up,             \* locals of process_uploaded_document
    ap_raised,         \* history: that handler raised to its caller
    ap_nops,           \* history: number of handlers entered so far
    \* ---- DocumentProcessor: one extract_text call
    ex_pc,          \* "off" | "idle" | "pdf_write" | "pdf_load" | "docx_write" | "docx_load" | "done"
    ex_call,        \* arguments file_content and filename
    temp_files,     \* the temporary files that exist
    ex_failed,      \* an extractor went through its except branch
    ex_result,      \* the return value, or "none" while the call runs
    \* ---- AIAnalyzer: its calls, one after the other
    an_pc,          \* "off" | "idle" | "llm" | "done"
    an_op,          \* the method called
    an_text,        \* argument text (document_text of answer_question)
    an_response,    \* what the chain returned
    an_raised,      \* the chain raised
    an_result,      \* the return value
    an_prev_raised, \* history: the chain raised in the call before
    \* ---- DocumentProcessor: one detect_document_type call
    dt_pc,          \* "off" | "idle" | "done"
    dt_text,        \* argument text
    dt_result,      \* the returned DocumentType, "none" while the call runs
    \* ---- helpers.calculate_risk_score on a growing list of risk factors
    rs_pc,          \* "off" | "on"
    rs_factors,     \* argument risk_factors of the last call
    rs_score,       \* what the last call returned
    rs_prev         \* history: what the call before returned

ckVars == <<ck_pc, ck_fn, ck_text, ck_chunk_size, ck_overlap, ck_start,
            ck_chunks, ck_windows, ck_result>>

ixVars == <<vector_store, calls, ix_prev, ix_ncalls>>

hlVars == <<hl_pc, hl_text, risk_factors, jargon_definitions, highlighted_text,
            processed_positions, risk_replacements, jargon_replacements>>

sxVars == <<sx_pc, sx_call, sx_dist, sx_found, sx_raised, sx_result>>

apVars == <<ap_pc, current_document, documents_library, qa_history, qa_asked,
            confirm_delete, ap_handler, ap_trace, ap_up, ap_raised, ap_nops>>

exVars == <<ex_pc, ex_call, temp_files, ex_failed, ex_result>>

anVars == <<an_pc, an_op, an_text, an_response, an_raised, an_result, an_prev_raised>>

dtVars == <<dt_pc, dt_text, dt_result>>

rsVars == <<rs_pc, rs_factors, rs_score, rs_prev>>

vars == <<ckVars, ixVars, hlVars, sxVars, apVars, exVars, anVars, dtVars, rsVars>>

\* what the actions of one component leave unchanged; the upload page
\* writes the collection of the index
ckOthers == <<ixVars, hlVars, sxVars, apVars, exVars, anVars, dtVars, rsVars>>
ixOthers == <<ckVars, hlVars, sxVars, apVars, exVars, anVars, dtVars, rsVars>>
hlOthers == <<ckVars, ixVars, sxVars, apVars, exVars, anVars, dtVars, rsVars>>
sxOthers == <<ckVars, ixVars, hlVars, apVars, exVars, anVars, dtVars, rsVars>>
apOthers == <<ckVars, calls, ix_prev, ix_ncalls, hlVars, sxVars, exVars, anVars, dtVars, rsVars>>
exOthers == <<ckVars, ixVars, hlVars, sxVars, apVars, anVars, dtVars, rsVars>>
anOthers == <<ckVars, ixVars, hlVars, sxVars, apVars, exVars, dtVars, rsVars>>
dtOthers == <<ckVars, ixVars, hlVars, sxVars, apVars, exVars, anVars, rsVars>>
rsOthers == <<ckVars, ixVars, hlVars, sxVars, apVars, exVars, anVars, dtVars>>

-----------------------------------------------------------------------------
(* Python str primitives *)

Max(a, b) == IF a >= b THEN a ELSE b
Min(a, b) == IF a <= b THEN a ELSE b

\* str.isspace() for one character
IsSpace(c) == c \in {" ", "\n", "\t", "\r"}

\* s[lo:hi] with Python's rules: a negative bound counts from the end, and
\* both bounds are clamped to 0..len(s)
PySlice(s, lo, hi) ==
    LET n  == Len(s)
        l0 == IF lo < 0 THEN Max(lo + n, 0) ELSE Min(lo, n)
        h0 == IF hi < 0 THEN Max(hi + n, 0) ELSE Min(hi, n)
    IN  IF l0 >= h0 THEN << >> ELSE SubSeq(s, l0 + 1, h0)

\* s.rfind("."): the 0-based index of the last period, -1 if there is none
RFindPeriod(s) ==
    LET hits == {i \in 1..Len(s) : s[i] = "."}
    IN  IF hits = {} THEN -1
        ELSE (CHOOSE i \in hits : \A j \in hits : j <= i) - 1

\* s.strip()
StrStrip(s) ==
    IF \A i \in 1..Len(s) : IsSpace(s[i]) THEN << >>
    ELSE LET first == CHOOSE i \in 1..Len(s) :
                          ~IsSpace(s[i]) /\ \A j \in 1..(i - 1) : IsSpace(s[j])
             last  == CHOOSE i \in 1..Len(s) :
                          ~IsSpace(s[i]) /\ \A j \in (i + 1)..Len(s) : IsSpace(s[j])
         IN  SubSeq(s, first, last)

-----------------------------------------------------------------------------
(* Chunker: VectorStoreService._chunk_document and helpers.chunk_text.     *)
(* The two functions share the loop; _chunk_document strips every chunk it *)
(* appends and drops the empty ones on return.                             *)

\* default arguments of _chunk_document
DefaultChunkSize == 1000
DefaultOverlap == 200

\* One iteration of the while loop on the locals st = [start, chunks, windows].
ChunkIter(fn, text, chunk_size, overlap, st) ==
    LET end0  == st.start + chunk_size
        chunk0 == PySlice(text, st.start, end0)
        lp    == RFindPeriod(chunk0)
        snap  == end0 < Len(text) /\ lp > chunk_size \div 2
        chunk == IF snap THEN PySlice(chunk0, 0, lp + 1) ELSE chunk0
        end   == IF snap THEN st.start + lp + 1 ELSE end0
        kept  == IF fn = "_chunk_document" THEN StrStrip(chunk) ELSE chunk
    IN  [start   |-> end - overlap,
         chunks  |-> Append(st.chunks, kept),
         windows |-> Append(st.windows, <<st.start, end>>)]

\* The return statement
ChunkReturn(fn, chunks) ==
    IF fn = "_chunk_document"
    THEN SelectSeq(chunks, LAMBDA c : StrStrip(c) # << >>)
    ELSE chunks

-----------------------------------------------------------------------------
(* Annotator: create_advanced_highlighting.  A code point outside ASCII is *)
(* one character, written "U+xxxx".                                        *)

LowerLetters ==
    <<"a", "b", "c", "d", "e", "f", "g", "h", "i", "j", "k", "l", "m",
      "n", "o", "p", "q", "r", "s", "t", "u", "v", "w", "x", "y", "z">>
UpperLetters ==
    <<"A", "B", "C", "D", "E", "F", "G", "H", "I", "J", "K", "L", "M",
      "N", "O", "P", "Q", "R", "S", "T", "U", "V", "W", "X", "Y", "Z">>
DigitChars == {"0", "1", "2", "3", "4", "5", "6", "7", "8", "9"}

LowerSet == {LowerLetters[i] : i \in DOMAIN LowerLetters}
UpperSet == {UpperLetters[i] : i \in DOMAIN UpperLetters}
ToLower == [c \in UpperSet |-> LowerLetters[CHOOSE i \in DOMAIN UpperLetters : UpperLetters[i] = c]]
ToUpper == [c \in LowerSet |-> UpperLetters[CHOOSE i \in DOMAIN LowerLetters : LowerLetters[i] = c]]

\* case folding of re.IGNORECASE, and str.upper()
Lower(c) == IF c \in UpperSet THEN ToLower[c] ELSE c
StrUpper(s) == [i \in 1..Len(s) |-> IF s[i] \in LowerSet THEN ToUpper[s[i]] ELSE s[i]]

\* \w of the re module
IsWordChar(c) == c \in LowerSet \cup UpperSet \cup DigitChars \cup {"_"}

\* s[:n]
Take(s, n) == SubSeq(s, 1, Min(n, Len(s)))

\* d.get(key, default)
Get(d, key, default) == IF key \in DOMAIN d THEN d[key] ELSE default

\* None, the value json.loads gives for null: a value that is no str
Null == <<"null">>

\* a list entry that json.loads made a str and not a dict
JsonString(s) == [json_string |-> s]

\* the value has the methods of a dict (get, items)
IsDict(v) == "json_string" \notin DOMAIN v

\* haystack.find(needle): 0-based index of the first occurrence, -1 if none
Find(haystack, needle) ==
    LET n == Len(needle)
        at(i) == SubSeq(haystack, i + 1, i + n) = needle
    IN  IF \E i \in 0..(Len(haystack) - n) : at(i)
        THEN CHOOSE i \in 0..(Len(haystack) - n) :
                 at(i) /\ \A j \in 0..(i - 1) : ~at(j)
        ELSE -1

\* .replace('"', "'").replace('<', '&lt;').replace('>', '&gt;')
EscapeChar(c) ==
    CASE c = "\"" -> <<"'">>
      [] c = "<"  -> <<"&", "l", "t", ";">>
      [] c = ">"  -> <<"&", "g", "t", ";">>
      [] OTHER    -> <<c>>

RECURSIVE EscapeHtml(_)
EscapeHtml(s) ==
    IF s = << >> THEN << >> ELSE EscapeChar(Head(s)) \o EscapeHtml(Tail(s))

\* literal pieces of the two f-strings
RiskOpenHead ==
    <<"<", "s", "p", "a", "n", " ", "c", "l", "a", "s", "s", "=", "\"", "t", "o",
      "o", "l", "t", "i", "p", " ", "r", "i", "s", "k", "-">>
JargonOpenHead ==
    <<"<", "s", "p", "a", "n", " ", "c", "l", "a", "s", "s", "=", "\"", "t", "o",
      "o", "l", "t", "i", "p", " ", "j", "a", "r", "g", "o", "n", "-", "t", "e",
      "r", "m", "\"", " ", "t", "i", "t", "l", "e", "=", "\"", "U+1F4DA", " ">>
TitleAttr == <<"\"", " ", "t", "i", "t", "l", "e", "=", "\"">>
TagEnd == <<"\"", ">">>
CloseTag == <<"<", "/", "s", "p", "a", "n", ">">>
SpanOpen == <<"<", "s", "p", "a", "n">>
RiskLabel == <<"U+26A0", "U+FE0F", " ", "R", "i", "s", "k", ":", " ">>
ExplanationLabel == <<"<", "b", "r", ">", "U+1F4DD", " ">>
SuggestionLabel ==
    <<"<", "b", "r", ">", "U+1F4A1", " ", "S", "u", "g", "g", "e", "s", "t", "i",
      "o", "n", ":", " ">>
ColonSpace == <<":", " ">>
LowSeverity == <<"l", "o", "w">>

ClauseLimit == 150
ExplanationLimit == 200
SuggestionLimit == 200
DefinitionLimit == 150
MinTermLen == 3
MaxJargonSpans == 5

\* clause_text.strip()[:150]
ClauseOf(factor) == Take(StrStrip(Get(factor, "clause_text", << >>)), ClauseLimit)

\* lines 22-24 and 30-31: the factor has a clause text, and it occurs in the text
ClauseFound(text, factor) ==
    /\ Get(factor, "clause_text", << >>) # << >>
    /\ Get(factor, "clause_text", << >>) # Null
    /\ Find(text, ClauseOf(factor)) # -1

\* lines 34-44
TooltipContent(factor) ==
    LET severity == Get(factor, "severity", LowSeverity)
        clean_explanation ==
            EscapeHtml(Take(Get(factor, "explanation", << >>), ExplanationLimit))
        clean_suggestion ==
            EscapeHtml(Take(Get(factor, "suggestion", << >>), SuggestionLimit))
    IN  RiskLabel \o StrUpper(severity) \o ExplanationLabel \o clean_explanation
        \o (IF clean_suggestion # << >>
            THEN SuggestionLabel \o clean_suggestion ELSE << >>)

\* lines 46-52: the entry appended for a factor whose clause is found
RiskEntry(text, factor) ==
    LET clause_text == ClauseOf(factor)
        start_pos == Find(text, clause_text)
    IN  [start       |-> start_pos,
         end         |-> start_pos + Len(clause_text),
         original    |-> clause_text,
         replacement |-> RiskOpenHead \o Get(factor, "severity", LowSeverity)
                         \o TitleAttr \o TooltipContent(factor) \o TagEnd
                         \o clause_text \o CloseTag,
         type        |-> "risk"]

\* list.sort(key=lambda x: x['start'], reverse=True): stable
RECURSIVE SortByStartDesc(_)
SortByStartDesc(seq) ==
    IF Len(seq) <= 1 THEN seq
    ELSE LET sorted == SortByStartDesc(SubSeq(seq, 1, Len(seq) - 1))
             x == seq[Len(seq)]
             k == Cardinality({i \in 1..Len(sorted) : sorted[i].start >= x.start})
         IN  SubSeq(sorted, 1, k) \o <<x>> \o SubSeq(sorted, k + 1, Len(sorted))

\* lines 20-55
CollectRisk(text, factors) ==
    LET found == SelectSeq(factors, LAMBDA f : ClauseFound(text, f))
    IN  SortByStartDesc([i \in 1..Len(found) |-> RiskEntry(text, found[i])])

\* highlighted_text[:start] + replacement + highlighted_text[end:]
Splice(ht, rep) ==
    PySlice(ht, 0, rep.start) \o rep.replacement \o PySlice(ht, rep.end, Len(ht))

\* the replacement loops of lines 58-64 and 103-109
RECURSIVE ApplyReplacements(_, _)
ApplyReplacements(ht, reps) ==
    IF reps = << >> THEN ht
    ELSE ApplyReplacements(Splice(ht, Head(reps)), Tail(reps))

\* line 65, over all risk replacements
RiskPositions(reps) ==
    UNION {reps[i].start .. (reps[i].end - 1) : i \in 1..Len(reps)}

\* a \b of the pattern at 0-based position p
WordAt(ht, i) == i >= 0 /\ i < Len(ht) /\ IsWordChar(ht[i + 1])
Boundary(ht, p) == WordAt(ht, p - 1) # WordAt(ht, p)

\* r'\b' + re.escape(term) + r'\b' with re.IGNORECASE matches at p
MatchAt(ht, term, p) ==
    /\ p + Len(term) <= Len(ht)
    /\ \A k \in 1..Len(term) : Lower(ht[p + k]) = Lower(term[k])
    /\ Boundary(ht, p)
    /\ Boundary(ht, p + Len(term))

\* pattern.finditer: the matches left to right, each search starting where
\* the previous match ended
RECURSIVE TakeMatches(_, _, _)
TakeMatches(hits, n, from) ==
    LET later == {p \in hits : p >= from}
    IN  IF later = {} THEN << >>
        ELSE LET m == CHOOSE p \in later : \A q \in later : p <= q
             IN  <<m>> \o TakeMatches(hits, n, m + n)

FindIter(ht, term) ==
    TakeMatches({p \in 0..(Len(ht) - Len(term)) : MatchAt(ht, term, p)},
                Len(term), 0)

\* before_text.count(sub) with before_text = highlighted_text[:start_pos]
CountBefore(ht, sub, start_pos) ==
    Cardinality({i \in 0..(start_pos - Len(sub)) :
                    SubSeq(ht, i + 1, i + Len(sub)) = sub})

\* lines 83-89: the occurrence is skipped
SkipMatch(ht, processed, start_pos, end_pos) ==
    \/ \E pos \in start_pos..(end_pos - 1) : pos \in processed
    \/ CountBefore(ht, SpanOpen, start_pos) > CountBefore(ht, CloseTag, start_pos)

\* lines 91-97
JargonEntry(ht, term, definition, start_pos) ==
    LET matched == SubSeq(ht, start_pos + 1, start_pos + Len(term))
    IN  [start       |-> start_pos,
         end         |-> start_pos + Len(term),
         original    |-> matched,
         replacement |-> JargonOpenHead \o term \o ColonSpace
                         \o Take(EscapeHtml(definition), DefinitionLimit)
                         \o TagEnd \o matched \o CloseTag,
         type        |-> "jargon"]

\* the loop body without the length test of line 70
TermEntriesAnyLength(ht, processed, term, definition) ==
    LET kept == SelectSeq(FindIter(ht, term),
                          LAMBDA p : ~SkipMatch(ht, processed, p, p + Len(term)))
    IN  [i \in 1..Len(kept) |-> JargonEntry(ht, term, definition, kept[i])]

\* lines 70-97 for one item of the dict
TermEntries(ht, processed, term, definition) ==
    IF Len(term) < MinTermLen THEN << >>
    ELSE LET kept == SelectSeq(FindIter(ht, term),
                               LAMBDA p : ~SkipMatch(ht, processed, p, p + Len(term)))
         IN  [i \in 1..Len(kept) |-> JargonEntry(ht, term, definition, kept[i])]

\* lines 68-100
RECURSIVE CollectTerms(_, _, _)
CollectTerms(ht, processed, items) ==
    IF items = << >> THEN << >>
    ELSE TermEntries(ht, processed, Head(items)[1], Head(items)[2])
         \o CollectTerms(ht, processed, Tail(items))

CollectJargon(ht, processed, items) ==
    SortByStartDesc(CollectTerms(ht, processed, items))

\* lines 22-42 raise for the factor: get on an entry that is no dict (line
\* 22), a slice of None (lines 35, 36) or None.upper() (line 42) once the
\* clause is found
FactorRaises(text, factor) ==
    \/ ~IsDict(factor)
    \/ /\ ClauseFound(text, factor)
       /\ \/ Get(factor, "severity", LowSeverity) = Null
          \/ Get(factor, "explanation", << >>) = Null
          \/ Get(factor, "suggestion", << >>) = Null

\* the loop of lines 21-52 raises at one of the factors
RiskLoopRaises(text, factors) ==
    \E i \in 1..Len(factors) : FactorRaises(text, factors[i])

\* the loop of lines 69-97 raises: definition.replace of line 74 on a
\* definition that is no str, for a term that line 70 lets through
JargonLoopRaises(items) ==
    \E i \in 1..Len(items) :
        Len(items[i][1]) >= MinTermLen /\ items[i][2] = Null

HighlightOff ==
    /\ hl_pc = "off"
    /\ hl_text = << >>
    /\ risk_factors = << >>
    /\ jargon_definitions = << >>
    /\ highlighted_text = << >>
    /\ processed_positions = {}
    /\ risk_replacements = << >>
    /\ jargon_replacements = << >>

SearchOff ==
    /\ sx_pc = "off"
    /\ sx_call = "none"
    /\ sx_dist = "none"
    /\ sx_found = "none"
    /\ sx_raised = FALSE
    /\ sx_result = "none"

\* st.session_state.current_document = None
NoDocument == [id |-> "none"]

NoHandler ==
    [name |-> "none", arg |-> "none", current_document |-> NoDocument,
     documents_library |-> << >>]

NoUpload ==
    [file |-> "none", text |-> "none", doc_id |-> "none", document_type |-> "none",
     risk_data |-> "none", simplified_data |-> "none", summary |-> "none"]

AppOff ==
    /\ ap_pc = "off"
    /\ current_document = NoDocument
    /\ documents_library = << >>
    /\ qa_history = << >>
    /\ qa_asked = << >>
    /\ confirm_delete = {}
    /\ ap_handler = NoHandler
    /\ ap_trace = << >>
    /\ ap_up = NoUpload
    /\ ap_raised = FALSE
    /\ ap_nops = 0

ExtractOff ==
    /\ ex_pc = "off"
    /\ ex_call = [file_content |-> << >>, filename |-> << >>]
    /\ temp_files = {}
    /\ ex_failed = FALSE
    /\ ex_result = "none"

\* the dict of a call that has not returned
NoRiskData == [risk_factors |-> << >>, overall_assessment |-> "none"]

AnalyzerOff ==
    /\ an_pc = "off"
    /\ an_op = "none"
    /\ an_text = << >>
    /\ an_response = << >>
    /\ an_raised = FALSE
    /\ an_result = NoRiskData
    /\ an_prev_raised = FALSE

DetectOff ==
    /\ dt_pc = "off"
    /\ dt_text = << >>
    /\ dt_result = "none"

ScoreOff ==
    /\ rs_pc = "off"
    /\ rs_factors = << >>
    /\ rs_score = 0
    /\ rs_prev = 0

\* the components added to the three above are not running
RestOff == SearchOff /\ AppOff /\ ExtractOff /\ AnalyzerOff /\ DetectOff /\ ScoreOff

-----------------------------------------------------------------------------
(* Index: VectorStoreService over one Chroma collection.  A call runs on a *)
(* thread; the service holds no lock, so the calls of different threads    *)
(* interleave at the calls into the collection (add_texts, get, delete).   *)

MaxThreads == 2       \* threads of the concurrent specification
MaxCalls == 3         \* calls followed in one behaviour

Threads == 1..MaxThreads

DocIds == {"d1", "d2"}

EmptyMap == [k \in {} |-> ""]

\* texts given to add_document: blank, one chunk, two chunks
IxTexts ==
    {<<" ", " ">>, <<"a", "b", ".">>, [i \in 1..1100 |-> "a"]}

\* metadata given to add_document: None, the keys the upload page passes, and
\* maps that hold one of the keys add_document sets itself
IxMetadatas ==
    {EmptyMap,
     [k \in {"filename"} |-> "f.txt"],
     [k \in {"document_id"} |-> "d2"]}

\* {**base, **over}: the keys of over win
DictMerge(base, over) ==
    [k \in (DOMAIN base) \cup (DOMAIN over) |->
        IF k \in DOMAIN over THEN over[k] ELSE base[k]]

\* f"{document_id}_chunk_{i}"
ChunkKey(document_id, i) == document_id \o "_chunk_" \o ToString(i)

\* the embedding of a text: a value that depends on the text alone
Embed(text) == <<"embedding", text>>

RECURSIVE ChunkRun(_, _, _, _, _)
ChunkRun(fn, text, chunk_size, overlap, st) ==
    IF st.start < Len(text)
    THEN ChunkRun(fn, text, chunk_size, overlap,
                  ChunkIter(fn, text, chunk_size, overlap, st))
    ELSE ChunkReturn(fn, st.chunks)

\* self._chunk_document(text)
ChunkDocument(text) ==
    ChunkRun("_chunk_document", text, DefaultChunkSize, DefaultOverlap,
             [start |-> 0, chunks |-> << >>, windows |-> << >>])

\* chunk_metadata of chunk number i (0-based)
ChunkMetadata(document_id, i, metadata) ==
    DictMerge([k \in {"document_id", "chunk_id", "chunk_type"} |->
                  CASE k = "document_id" -> document_id
                    [] k = "chunk_id" -> i
                    [] OTHER -> "text"],
              metadata)

\* _chunk_document over the texts the model passes, computed once
ChunkedTexts == [text \in IxTexts |-> ChunkDocument(text)]

\* the lists add_document builds: one entry per chunk
AddBatch(document_id, text, metadata) ==
    LET chunks == ChunkedTexts[text]
    IN  [i \in 1..Len(chunks) |->
            [id       |-> ChunkKey(document_id, i - 1),
             content  |-> chunks[i],
             metadata |-> ChunkMetadata(document_id, i - 1, metadata)]]

\* vector_store.add_texts(texts, metadatas, ids): one upsert of the batch
StoreAddTexts(store, batch) ==
    LET ids == {batch[i].id : i \in 1..Len(batch)}
        last(id) == CHOOSE i \in 1..Len(batch) :
                        /\ batch[i].id = id
                        /\ \A j \in 1..Len(batch) : batch[j].id = id => j <= i
    IN  [id \in (DOMAIN store) \cup ids |->
            IF id \in ids
            THEN [content   |-> batch[last(id)].content,
                  embedding |-> Embed(batch[last(id)].content),
                  metadata  |-> batch[last(id)].metadata]
            ELSE store[id]]

\* a where filter on the wrong key: every text chunk matches
StoreGetIdsAnyDocument(store, document_id) ==
    {id \in DOMAIN store : store[id].metadata["chunk_type"] = "text"}

\* vector_store.get(where={"document_id": document_id})["ids"]
StoreGetIds(store, document_id) ==
    {id \in DOMAIN store :
        /\ "document_id" \in DOMAIN store[id].metadata
        /\ store[id].metadata["document_id"] = document_id}

\* a delete that removes one of the ids only
StoreDeleteOne(store, ids) ==
    [id \in (DOMAIN store) \ (IF ids = {} THEN {} ELSE {CHOOSE x \in ids : TRUE}) |->
        store[id]]

\* vector_store.delete(ids=ids)
StoreDelete(store, ids) ==
    [id \in (DOMAIN store) \ ids |-> store[id]]

\* the queries of the model, and similarity_score values in hundredths
\* (Chroma returns a distance: lower is nearer)
Queries == {"q"}
Distances == {50, 80, 90}

\* the chunk texts the model stores
IxContents ==
    UNION {{ChunkedTexts[text][i] : i \in 1..Len(ChunkedTexts[text])} : text \in IxTexts}

\* the k / max_chunks arguments: below, at and above the defaults
SearchLimits == {1, 3, 5}

\* the embedding service: any distance between a query and a stored text
DistTables == [Queries \X IxContents -> Distances]

\* the ids nearest first; the collection decides between equal distances
RECURSIVE Ranked(_, _, _, _)
Ranked(store, dist, query, ids) ==
    IF ids = {} THEN << >>
    ELSE LET score(id) == dist[<<query, store[id].content>>]
             best == CHOOSE id \in ids : \A other \in ids : score(id) <= score(other)
         IN  <<best>> \o Ranked(store, dist, query, ids \ {best})

\* lines 93-101: one formatted result per (doc, score) pair
FormatResults(store, dist, query, ranked) ==
    [i \in 1..Len(ranked) |->
        [content          |-> store[ranked[i]].content,
         metadata         |-> store[ranked[i]].metadata,
         similarity_score |-> dist[<<query, store[ranked[i]].content>>]]]

\* search_document_clauses(document_id, query, k) when nothing raises:
\* similarity_search_with_score with filter {"document_id": document_id}
SearchDocumentClauses(store, dist, document_id, query, k) ==
    FormatResults(store, dist, query,
                  Take(Ranked(store, dist, query, StoreGetIds(store, document_id)), k))

\* the except branches with "return True" for add and remove
ReturnOnErrorTrue(op) == IF op \in {"add", "remove"} THEN TRUE ELSE << >>

\* what the except branch of a method returns: False for add_document and
\* remove_document (lines 60, 142), [] for the three searches (lines 81,
\* 107, 212)
ReturnOnError(op) == IF op \in {"add", "remove"} THEN FALSE ELSE << >>

IdleCall ==
    [op |-> "none", pc |-> "idle", document_id |-> "", batch |-> << >>,
     ids |-> {}, result |-> "none", raised |-> FALSE, before |-> EmptyMap]

NoPrev == [op |-> "none", document_id |-> "", result |-> "none", ids |-> {}]

IndexOff ==
    /\ vector_store = EmptyMap
    /\ calls = [t \in Threads |-> IdleCall]
    /\ ix_prev = NoPrev
    /\ ix_ncalls = 0

Free(t) == calls[t].pc \in {"idle", "done"}

\* the call a thread has just returned from becomes the previous call
Completed(t) ==
    IF calls[t].pc = "done"
    THEN [op |-> calls[t].op, document_id |-> calls[t].document_id,
          result |-> calls[t].result, ids |-> calls[t].ids]
    ELSE ix_prev

\* add_document(document_id, text, metadata) is entered: lines 35-51
AddDocument(t, document_id, text, metadata) ==
    /\ Free(t)
    /\ sx_pc \in {"off", "idle"}
    /\ ix_ncalls < MaxCalls
    /\ ix_ncalls' = ix_ncalls + 1
    /\ calls' = [calls EXCEPT ![t] =
                    [op |-> "add", pc |-> "add_texts", document_id |-> document_id,
                     batch |-> AddBatch(document_id, text, metadata),
                     ids |-> {}, result |-> "none", raised |-> FALSE,
                     before |-> vector_store]]
    /\ ix_prev' = Completed(t)
    /\ UNCHANGED <<vector_store, ixOthers>>

\* line 54 succeeds, line 56 returns True
AddTexts(t) ==
    /\ calls[t].pc = "add_texts"
    /\ vector_store' = StoreAddTexts(vector_store, calls[t].batch)
    /\ calls' = [calls EXCEPT ![t].pc = "done", ![t].result = TRUE]
    /\ UNCHANGED <<ix_prev, ix_ncalls, ixOthers>>

\* the embedding service or the collection raises in line 54, the collection
\* having written none or some of the records: lines 58-60
AddTextsRaise(t) ==
    /\ calls[t].pc = "add_texts"
    /\ \E n \in 0..Max(0, Len(calls[t].batch) - 1) :
           vector_store' = StoreAddTexts(vector_store, SubSeq(calls[t].batch, 1, n))
    /\ calls' = [calls EXCEPT ![t].pc = "done",
                              ![t].result = ReturnOnError(calls[t].op),
                              ![t].raised = TRUE]
    /\ UNCHANGED <<ix_prev, ix_ncalls, ixOthers>>

\* remove_document(document_id) is entered
RemoveDocument(t, document_id) ==
    /\ Free(t)
    /\ sx_pc \in {"off", "idle"}
    /\ ix_ncalls < MaxCalls
    /\ ix_ncalls' = ix_ncalls + 1
    /\ calls' = [calls EXCEPT ![t] =
                    [op |-> "remove", pc |-> "get", document_id |-> document_id,
                     batch |-> << >>, ids |-> {}, result |-> "none",
                     raised |-> FALSE, before |-> vector_store]]
    /\ ix_prev' = Completed(t)
    /\ UNCHANGED <<vector_store, ixOthers>>

\* line 132, and line 134 when there is nothing to delete (line 138)
RemoveGet(t) ==
    /\ calls[t].pc = "get"
    /\ LET ids == StoreGetIds(vector_store, calls[t].document_id)
       IN  calls' = [calls EXCEPT
                        ![t].ids = ids,
                        ![t].pc = IF ids # {} THEN "delete" ELSE "done",
                        ![t].result = IF ids # {} THEN "none" ELSE TRUE]
    /\ UNCHANGED <<vector_store, ix_prev, ix_ncalls, ixOthers>>

\* line 136 succeeds, line 138 returns True
RemoveDelete(t) ==
    /\ calls[t].pc = "delete"
    /\ vector_store' = StoreDelete(vector_store, calls[t].ids)
    /\ calls' = [calls EXCEPT ![t].pc = "done", ![t].result = TRUE]
    /\ UNCHANGED <<ix_prev, ix_ncalls, ixOthers>>

\* the collection raises in line 132 or line 136: lines 140-142
RemoveRaise(t) ==
    /\ calls[t].pc \in {"get", "delete"}
    /\ calls' = [calls EXCEPT ![t].pc = "done",
                              ![t].result = ReturnOnError(calls[t].op),
                              ![t].raised = TRUE]
    /\ UNCHANGED <<vector_store, ix_prev, ix_ncalls, ixOthers>>


ChunkOff ==
    /\ ck_pc = "off"
    /\ ck_fn = "none"
    /\ ck_text = << >>
    /\ ck_chunk_size = DefaultChunkSize
    /\ ck_overlap = DefaultOverlap
    /\ ck_start = 0
    /\ ck_chunks = << >>
    /\ ck_windows = << >>
    /\ ck_result = "none"

IndexInit == ChunkOff /\ IndexOff /\ HighlightOff /\ RestOff

\* one session: the calls follow each other on one thread
IndexNext ==
    \/ \E d \in DocIds, text \in IxTexts, m \in IxMetadatas : AddDocument(1, d, text, m)
    \/ AddTexts(1)
    \/ AddTextsRaise(1)
    \/ \E d \in DocIds : RemoveDocument(1, d)
    \/ RemoveGet(1)
    \/ RemoveDelete(1)
    \/ RemoveRaise(1)

SpecIndex == IndexInit /\ [][IndexNext]_vars

\* several sessions: the calls of the threads interleave
ConcNext ==
    \E t \in Threads :
        \/ \E d \in DocIds, text \in IxTexts, m \in IxMetadatas : AddDocument(t, d, text, m)
        \/ AddTexts(t)
        \/ AddTextsRaise(t)
        \/ \E d \in DocIds : RemoveDocument(t, d)
        \/ RemoveGet(t)
        \/ RemoveDelete(t)
        \/ RemoveRaise(t)

SpecConc == IndexInit /\ [][ConcNext]_vars

-----------------------------------------------------------------------------
(* Index: the search methods of VectorStoreService, one call on a        *)
(* collection that add_document has filled.                                 *)

RelevanceThreshold == 80     \* 0.8, in hundredths

SearchOps ==
    {"search_similar_documents", "search_document_clauses",
     "get_document_context", "find_similar_clauses"}

\* the collection after add_document(d, texts[d]) for every document
RECURSIVE StoreOf(_, _)
StoreOf(texts, ds) ==
    IF ds = {} THEN EmptyMap
    ELSE LET d == CHOOSE x \in ds : TRUE
         IN  StoreAddTexts(StoreOf(texts, ds \ {d}), AddBatch(d, texts[d], EmptyMap))

SearchStores == {StoreOf(texts, DocIds) : texts \in [DocIds -> IxTexts]}

\* search_similar_documents(query, k) when nothing raises: lines 65-77
SearchSimilarDocuments(store, dist, query, k) ==
    FormatResults(store, dist, query, Take(Ranked(store, dist, query, DOMAIN store), k))

\* find_similar_clauses(clause_text, exclude_document_id, k) when nothing
\* raises: filter {"document_id": {"$ne": exclude_document_id}}
FindSimilarClauses(store, dist, clause_text, exclude_document_id, k) ==
    FormatResults(store, dist, clause_text,
                  Take(Ranked(store, dist, clause_text,
                              {id \in DOMAIN store :
                                  store[id].metadata["document_id"] # exclude_document_id}),
                       k))

\* sep.join(parts)
RECURSIVE Join(_, _)
Join(parts, sep) ==
    IF parts = << >> THEN << >>
    ELSE IF Len(parts) = 1 THEN parts[1]
    ELSE parts[1] \o sep \o Join(Tail(parts), sep)

\* line 119 under <=
RelevantOrEqual(result) == result.similarity_score <= RelevanceThreshold

\* line 119
Relevant(result) == result.similarity_score < RelevanceThreshold

\* lines 117-120
ContextParts(results) ==
    LET kept == SelectSeq(results, Relevant)
    IN  [i \in 1..Len(kept) |-> kept[i].content]

\* lines 116-122, results being what search_document_clauses returned
ContextOf(results) == Join(ContextParts(results), <<"\n", "\n">>)

\* what similarity_search_with_score gives the running call
Found(store, dist, call) ==
    CASE call.op = "search_similar_documents" ->
             SearchSimilarDocuments(store, dist, call.query, call.k)
      [] call.op = "find_similar_clauses" ->
             FindSimilarClauses(store, dist, call.query, call.document_id, call.k)
      [] OTHER ->
             SearchDocumentClauses(store, dist, call.document_id, call.query, call.k)

SearchInit ==
    /\ ChunkOff
    /\ HighlightOff
    /\ AppOff
    /\ ExtractOff
    /\ AnalyzerOff
    /\ DetectOff
    /\ ScoreOff
    /\ vector_store \in SearchStores
    /\ calls = [t \in Threads |-> IdleCall]
    /\ ix_prev = NoPrev
    /\ ix_ncalls = Cardinality(DocIds)
    /\ sx_pc = "idle"
    /\ sx_call = "none"
    /\ sx_dist = "none"
    /\ sx_found = "none"
    /\ sx_raised = FALSE
    /\ sx_result = "none"

\* one of the search methods is called
SxEnter(op, document_id, query, k) ==
    /\ sx_pc = "idle"
    /\ \A t \in Threads : calls[t].pc = "idle"
    /\ sx_call' = [op |-> op, document_id |-> document_id, query |-> query, k |-> k]
    /\ sx_pc' = "search"
    /\ UNCHANGED <<sx_dist, sx_found, sx_raised, sx_result, sxOthers>>

\* similarity_search_with_score returns; the method formats and returns
SxSearch ==
    /\ sx_pc = "search"
    /\ \E dist \in DistTables :
           /\ sx_dist' = dist
           /\ sx_found' = Found(vector_store, dist, sx_call)
    /\ sx_result' = IF sx_call.op = "get_document_context"
                    THEN ContextOf(sx_found')
                    ELSE sx_found'
    /\ sx_pc' = "done"
    /\ UNCHANGED <<sx_call, sx_raised, sxOthers>>

\* the embedding service or the collection raises in
\* similarity_search_with_score: the except branch returns []; under
\* get_document_context, that list is what search_document_clauses returned
SxSearchRaise ==
    /\ sx_pc = "search"
    /\ sx_raised' = TRUE
    /\ sx_result' = IF sx_call.op = "get_document_context"
                    THEN ContextOf(ReturnOnError("search_document_clauses"))
                    ELSE ReturnOnError(sx_call.op)
    /\ sx_pc' = "done"
    /\ UNCHANGED <<sx_call, sx_dist, sx_found, sxOthers>>

\* one session calls the service, after the add_document calls that
\* filled the collection
SearchNext ==
    \/ \E op \in SearchOps, d \in DocIds, q \in Queries, k \in SearchLimits :
           SxEnter(op, d, q, k)
    \/ SxSearch
    \/ SxSearchRaise
    \/ \E d \in DocIds, text \in IxTexts, m \in IxMetadatas : AddDocument(1, d, text, m)
    \/ AddTexts(1)
    \/ AddTextsRaise(1)
    \/ \E d \in DocIds : RemoveDocument(1, d)
    \/ RemoveGet(1)
    \/ RemoveDelete(1)
    \/ RemoveRaise(1)

SpecSearch == SearchInit /\ [][SearchNext]_vars

-----------------------------------------------------------------------------
(* Pages: process_uploaded_document (upload.py), ask_question              *)
(* (qa_assistant.py), load_document_for_qa and delete_document              *)
(* (library.py), run by one Streamlit session.  The services are the       *)
(* environment; ap_trace records the calls a handler makes to them.         *)

MaxOps == 3           \* handlers followed in one behaviour

Files == {"a.pdf"}

\* what extract_text can return: nothing, blanks, and texts of one and two
\* chunks
ExtractedTexts == IxTexts \cup {<< >>}

Questions == {"q"}

\* f"Sample content for {doc['filename']}..."
SampleText(filename) == <<"Sample content for ", filename, "...">>

\* one service call: constructor or method, with the arguments followed
Call(fn, document_id, text) ==
    [fn |-> fn, document_id |-> document_id, text |-> text, raised |-> FALSE]

\* a service call that raised, or, for add_document, went through its
\* except branch
CallRaised(fn, document_id) ==
    [fn |-> fn, document_id |-> document_id, text |-> "none", raised |-> TRUE]

\* analyze_document_risk / simplify_text / generate_summary: the result when
\* the generation call works, and the default each returns when it fails
RiskData(llm_ok) ==
    IF llm_ok
    THEN [risk_factors |-> <<"factor">>, overall_assessment |-> "assessed"]
    ELSE [risk_factors |-> << >>, overall_assessment |-> "Analysis failed"]

SimplifiedData(llm_ok, text) ==
    IF llm_ok
    THEN [simplified_text |-> <<"simplified">>, key_points |-> <<"point">>,
          jargon_definitions |-> <<"jargon">>]
    ELSE [simplified_text |-> Take(text, 500) \o <<"...">>,
          key_points |-> <<"Simplification failed - showing original text">>,
          jargon_definitions |-> << >>]

Summary(llm_ok) == IF llm_ok THEN "summary" ELSE "Unable to generate summary"

\* the metadata argument of lines 134-138
UploadMetadata(file, document_type) ==
    [k \in {"filename", "document_type", "upload_date"} |->
        CASE k = "filename" -> file
          [] k = "document_type" -> document_type
          [] OTHER -> "now"]

LibraryIds == {documents_library[i].id : i \in 1..Len(documents_library)}

AppInit ==
    /\ ChunkOff
    /\ IndexOff
    /\ HighlightOff
    /\ SearchOff
    /\ ExtractOff
    /\ AnalyzerOff
    /\ DetectOff
    /\ ScoreOff
    /\ ap_pc = "idle"
    /\ current_document = NoDocument
    /\ documents_library = << >>
    /\ qa_history = << >>
    /\ qa_asked = << >>
    /\ confirm_delete = {}
    /\ ap_handler = NoHandler
    /\ ap_trace = << >>
    /\ ap_up = NoUpload
    /\ ap_raised = FALSE
    /\ ap_nops = 0

\* a handler is entered; ap_handler keeps the session state it found
Enter(name, arg) ==
    /\ ap_pc = "idle"
    /\ ap_nops < MaxOps
    /\ ap_nops' = ap_nops + 1
    /\ ap_handler' = [name |-> name, arg |-> arg,
                      current_document |-> current_document,
                      documents_library |-> documents_library]
    /\ ap_raised' = FALSE

\* process_uploaded_document(uploaded_file) is entered
ProcessUploadedDocument(file) ==
    /\ Enter("process_uploaded_document", file)
    /\ DocIds \ LibraryIds # {}
    /\ ap_trace' = << >>
    /\ ap_up' = [NoUpload EXCEPT !.file = file]
    /\ ap_pc' = "up_init"
    /\ UNCHANGED <<current_document, documents_library, qa_history, qa_asked, confirm_delete,
                   vector_store, apOthers>>

\* lines 84-90: the three services are constructed
UpInit ==
    /\ ap_pc = "up_init"
    /\ ap_trace' = ap_trace \o <<Call("DocumentProcessor", "none", "none"),
                                  Call("AIAnalyzer", "none", "none"),
                                  Call("VectorStoreService", "none", "none")>>
    /\ ap_pc' = "up_extract"
    /\ UNCHANGED <<current_document, documents_library, qa_history, qa_asked, confirm_delete,
                   ap_handler, ap_up, ap_raised, ap_nops, vector_store, apOthers>>

\* VectorStoreService() raises in line 86 (the embedding service or Chroma
\* cannot be opened): the handler of lines 192-195 reports the error and
\* then reads progress_bar, which line 89 has not bound yet, so an
\* UnboundLocalError leaves process_uploaded_document
UpInitRaise ==
    /\ ap_pc = "up_init"
    /\ ap_trace' = ap_trace \o <<Call("DocumentProcessor", "none", "none"),
                                  Call("AIAnalyzer", "none", "none"),
                                  CallRaised("VectorStoreService", "none")>>
    /\ ap_raised' = TRUE
    /\ ap_pc' = "idle"
    /\ UNCHANGED <<current_document, documents_library, qa_history, qa_asked, confirm_delete,
                   ap_handler, ap_up, ap_nops, vector_store, apOthers>>

\* line 99 under "if not text"
NoTextAtAll(text) == text = << >>

\* line 99: not text.strip()
NoText(text) == StrStrip(text) = << >>

\* lines 93-105: extract_text returns; a blank text ends the handler
UpExtract(text) ==
    /\ ap_pc = "up_extract"
    /\ ap_trace' = Append(ap_trace, Call("extract_text", "none", text))
    /\ ap_up' = [ap_up EXCEPT !.text = text]
    /\ ap_pc' = IF NoText(text) THEN "idle" ELSE "up_analyze"
    /\ UNCHANGED <<current_document, documents_library, qa_history, qa_asked, confirm_delete,
                   ap_handler, ap_raised, ap_nops, vector_store, apOthers>>

\* lines 107-126: classification and the three Analyzer calls, none of
\* which raises
UpAnalyze(llm_ok) ==
    /\ ap_pc = "up_analyze"
    /\ ap_trace' = ap_trace \o <<Call("detect_document_type", "none", ap_up.text),
                                  Call("analyze_document_risk", "none", ap_up.text),
                                  Call("simplify_text", "none", ap_up.text),
                                  Call("generate_summary", "none", ap_up.text)>>
    /\ ap_up' = [ap_up EXCEPT !.document_type = "other",
                              !.risk_data = RiskData(llm_ok),
                              !.simplified_data = SimplifiedData(llm_ok, ap_up.text),
                              !.summary = Summary(llm_ok)]
    /\ ap_pc' = "up_index"
    /\ UNCHANGED <<current_document, documents_library, qa_history, qa_asked, confirm_delete,
                   ap_handler, ap_raised, ap_nops, vector_store, apOthers>>

\* lines 129-139: generate_document_id gives a fresh id, add_document stores
\* the chunks and returns True (the value is not looked at)
UpIndex(doc_id) ==
    /\ ap_pc = "up_index"
    /\ doc_id \notin LibraryIds
    /\ vector_store' =
           StoreAddTexts(vector_store,
                         AddBatch(doc_id, ap_up.text,
                                  UploadMetadata(ap_up.file, ap_up.document_type)))
    /\ ap_trace' = Append(ap_trace, Call("add_document", doc_id, ap_up.text))
    /\ ap_up' = [ap_up EXCEPT !.doc_id = doc_id]
    /\ ap_pc' = "up_store"
    /\ UNCHANGED <<current_document, documents_library, qa_history, qa_asked, confirm_delete,
                   ap_handler, ap_raised, ap_nops, apOthers>>

\* lines 129-139 when the embedding service or the collection raises inside
\* add_document: it returns False, with none or some of the records written
UpIndexFail(doc_id) ==
    /\ ap_pc = "up_index"
    /\ doc_id \notin LibraryIds
    /\ LET batch == AddBatch(doc_id, ap_up.text,
                             UploadMetadata(ap_up.file, ap_up.document_type))
       IN  \E n \in 0..Max(0, Len(batch) - 1) :
               vector_store' = StoreAddTexts(vector_store, SubSeq(batch, 1, n))
    /\ ap_trace' = Append(ap_trace, CallRaised("add_document", doc_id))
    /\ ap_up' = [ap_up EXCEPT !.doc_id = doc_id]
    /\ ap_pc' = "up_store"
    /\ UNCHANGED <<current_document, documents_library, qa_history, qa_asked, confirm_delete,
                   ap_handler, ap_raised, ap_nops, apOthers>>

\* lines 141-190: the results go to the session state
UpStore ==
    /\ ap_pc = "up_store"
    /\ current_document' =
           [id |-> ap_up.doc_id, filename |-> ap_up.file,
            document_type |-> ap_up.document_type, original_text |-> ap_up.text,
            simplified_text |-> ap_up.simplified_data.simplified_text,
            summary |-> ap_up.summary, risk_data |-> ap_up.risk_data,
            key_points |-> ap_up.simplified_data.key_points,
            jargon_definitions |-> ap_up.simplified_data.jargon_definitions]
    /\ documents_library' =
           Append(documents_library,
                  [id |-> ap_up.doc_id, filename |-> ap_up.file,
                   document_type |-> ap_up.document_type,
                   risk_score |-> Len(ap_up.risk_data.risk_factors) * 10])
    /\ ap_pc' = "idle"
    /\ UNCHANGED <<qa_history, qa_asked, confirm_delete, ap_handler, ap_trace, ap_up,
                   ap_raised, ap_nops, vector_store, apOthers>>

\* what answer_question returns: the answer of the model to the question
\* over document_text[:3000], or the apology of its except branch
Answer(llm_ok, question, document_text) ==
    IF llm_ok
    THEN [question |-> question, document |-> Take(document_text, 3000)]
    ELSE [question |-> question,
          document |-> "Sorry, I couldn't process your question. Please try again."]

\* ask_question(question, doc), doc being the current document: lines 91-117
AskQuestion(question, llm_ok) ==
    /\ Enter("ask_question", question)
    /\ current_document.id # "none"
    /\ LET document_text == current_document.original_text
       IN  /\ ap_trace' = <<Call("AIAnalyzer", "none", "none"),
                            Call("answer_question", "none", document_text)>>
           /\ qa_history' = Append(qa_history,
                                   [question |-> question,
                                    answer |-> Answer(llm_ok, question, document_text)])
           /\ qa_asked' = Append(qa_asked, current_document.id)
    /\ UNCHANGED <<ap_pc, current_document, documents_library, confirm_delete,
                   ap_up, vector_store, apOthers>>

\* ask_question when AIAnalyzer() raises: lines 119-120
AskQuestionRaise(question) ==
    /\ Enter("ask_question", question)
    /\ current_document.id # "none"
    /\ ap_trace' = <<CallRaised("AIAnalyzer", "none")>>
    /\ UNCHANGED <<ap_pc, current_document, documents_library, qa_history, qa_asked,
                   confirm_delete, ap_up, vector_store, apOthers>>

\* load_document_for_qa(doc_id), from the card of a library document
LoadDocumentForQa(doc_id) ==
    /\ Enter("load_document_for_qa", doc_id)
    /\ doc_id \in LibraryIds
    /\ ap_trace' = << >>
    /\ LET doc == documents_library[CHOOSE i \in DOMAIN documents_library :
                                        documents_library[i].id = doc_id]
       IN  current_document' =
               [id |-> doc.id, filename |-> doc.filename,
                document_type |-> doc.document_type,
                original_text |-> SampleText(doc.filename), is_sample |-> TRUE]
    /\ UNCHANGED <<ap_pc, documents_library, qa_history, qa_asked, confirm_delete, ap_up,
                   vector_store, apOthers>>

\* delete_document(doc_id), from the Delete button of a library document
DeleteDocument(doc_id) ==
    /\ Enter("delete_document", doc_id)
    /\ doc_id \in LibraryIds
    /\ ap_trace' = << >>
    /\ IF doc_id \in confirm_delete
       THEN /\ documents_library' =
                   SelectSeq(documents_library, LAMBDA doc : doc.id # doc_id)
            /\ confirm_delete' = confirm_delete \ {doc_id}
       ELSE UNCHANGED <<documents_library, confirm_delete>>
    /\ UNCHANGED <<ap_pc, current_document, qa_history, qa_asked, ap_up, vector_store, apOthers>>

\* the Clear Chat button of show_qa_interface: lines 82-84
ClearChat ==
    /\ Enter("clear_chat", "none")
    /\ current_document.id # "none"
    /\ ap_trace' = << >>
    /\ qa_history' = << >>
    /\ qa_asked' = << >>
    /\ UNCHANGED <<ap_pc, current_document, documents_library, confirm_delete,
                   ap_up, vector_store, apOthers>>

AppNext ==
    \/ \E file \in Files : ProcessUploadedDocument(file)
    \/ UpInit
    \/ UpInitRaise
    \/ \E text \in ExtractedTexts : UpExtract(text)
    \/ \E llm_ok \in BOOLEAN : UpAnalyze(llm_ok)
    \/ \E doc_id \in DocIds : UpIndex(doc_id)
    \/ \E doc_id \in DocIds : UpIndexFail(doc_id)
    \/ UpStore
    \/ \E question \in Questions, llm_ok \in BOOLEAN : AskQuestion(question, llm_ok)
    \/ \E question \in Questions : AskQuestionRaise(question)
    \/ \E doc_id \in DocIds : LoadDocumentForQa(doc_id)
    \/ \E doc_id \in DocIds : DeleteDocument(doc_id)
    \/ ClearChat

SpecApp == AppInit /\ [][AppNext]_vars

-----------------------------------------------------------------------------
(* DocumentProcessor.extract_text and the three extractors.  A payload is  *)
(* a sequence of bytes (0..255); the PDF and DOCX loaders are the           *)
(* environment.                                                             *)

MaxPayloadLen == 2    \* bytes in an enumerated payload
MaxParts == 2         \* pages / paragraphs / cells a loader returns

Filenames ==
    {<<"a", ".", "p", "d", "f">>,
     <<"A", ".", "P", "D", "F">>,
     <<"b", ".", "t", "x", "t">>,
     <<"c", ".", "d", "o", "c", "x">>,
     <<"d", ".", "d", "o", "c">>,
     <<"a", ".", "p", "d", "f", ".", "e", "x", "e">>,
     <<"e", ".", "e", "x", "e">>,
     <<"p", "d", "f">>,
     << >>}

\* an ASCII letter, a byte that cp1252 leaves undefined, and the two bytes
\* of a byte order mark; UTF-8 rejects the three that are not ASCII
PayloadBytes == {97, 129, 254, 255}
Payloads == UNION {[1..n -> PayloadBytes] : n \in 0..MaxPayloadLen}

\* chr(n), for the code points the model meets
Chr(n) == IF n = 97 THEN "a" ELSE "U+" \o ToString(n)

\* s.lower()
StrLower(s) == [i \in 1..Len(s) |-> Lower(s[i])]

\* s.split(".")[-1]: what follows the last dot, all of s without a dot
LastPart(s) ==
    LET dots == {i \in 1..Len(s) : s[i] = "."}
    IN  IF dots = {} THEN s
        ELSE SubSeq(s, (CHOOSE i \in dots : \A j \in dots : j <= i) + 1, Len(s))

\* s.split(".")[1] where there is a dot: what lies between the first dot
\* and the second
SecondPart(s) ==
    LET dots == {i \in 1..Len(s) : s[i] = "."}
        first == CHOOSE i \in dots : \A j \in dots : i <= j
        after == {i \in dots : i > first}
    IN  IF dots = {} THEN s
        ELSE SubSeq(s, first + 1,
                    IF after = {} THEN Len(s)
                    ELSE (CHOOSE i \in after : \A j \in after : i <= j) - 1)

\* line 104 with .split(".")[1]
FileExtSecond(filename) == SecondPart(StrLower(filename))

\* line 104
FileExt(filename) == LastPart(StrLower(filename))

ExtPdf == <<"p", "d", "f">>
ExtTxt == <<"t", "x", "t">>
ExtDocx == <<"d", "o", "c", "x">>
ExtDoc == <<"d", "o", "c">>

\* bytes.decode: ok is FALSE for UnicodeDecodeError.  The bytes of the
\* model above 127 start no valid sequence.
DecodeUtf8(b) ==
    IF \A i \in 1..Len(b) : b[i] < 128
    THEN [ok |-> TRUE, text |-> [i \in 1..Len(b) |-> Chr(b[i])]]
    ELSE [ok |-> FALSE, text |-> << >>]

\* the code units of b, two bytes each
CodeUnits(b, big_endian) ==
    [i \in 1..(Len(b) \div 2) |->
        IF big_endian THEN 256 * b[2 * i - 1] + b[2 * i]
        ELSE b[2 * i - 1] + 256 * b[2 * i]]

BomLE == <<255, 254>>
BomBE == <<254, 255>>

\* the utf-16 codec: a byte order mark at the front sets the byte order and
\* is dropped, little-endian without one; an odd number of bytes is
\* rejected.  The bytes of the model form no surrogate.
DecodeUtf16(b) ==
    IF Len(b) % 2 # 0 THEN [ok |-> FALSE, text |-> << >>]
    ELSE LET marked == Len(b) >= 2 /\ SubSeq(b, 1, 2) \in {BomLE, BomBE}
             units == CodeUnits(IF marked THEN SubSeq(b, 3, Len(b)) ELSE b,
                                marked /\ SubSeq(b, 1, 2) = BomBE)
         IN  [ok |-> TRUE, text |-> [i \in 1..Len(units) |-> Chr(units[i])]]

DecodeLatin1(b) == [ok |-> TRUE, text |-> [i \in 1..Len(b) |-> Chr(b[i])]]

\* the bytes cp1252 has no character for
Cp1252Undefined == {129, 141, 143, 144, 157}

\* the cp1252 codec, which agrees with latin-1 on the other bytes of the model
DecodeCp1252(b) ==
    IF \E i \in 1..Len(b) : b[i] \in Cp1252Undefined
    THEN [ok |-> FALSE, text |-> << >>]
    ELSE [ok |-> TRUE, text |-> [i \in 1..Len(b) |-> Chr(b[i])]]

\* file_content.decode("utf-8", errors="ignore"): the invalid bytes are
\* dropped
DecodeUtf8Ignore(b) ==
    LET valid == SelectSeq(b, LAMBDA x : x < 128)
    IN  [i \in 1..Len(valid) |-> Chr(valid[i])]

\* the four decoders in the order of the list in line 49
TxtDecoders(b) == <<DecodeUtf8(b), DecodeUtf16(b), DecodeLatin1(b), DecodeCp1252(b)>>

\* the loop of lines 51-56 over a list that starts with latin-1
ExtractTextFromTxtLatinFirst(file_content) ==
    DecodeLatin1(file_content).text

\* extract_text_from_txt: lines 47-59, the text of the first decoder that
\* does not raise UnicodeDecodeError and line 59 when all four raise
ExtractTextFromTxt(file_content) ==
    LET tries == TxtDecoders(file_content)
        accepted == {i \in 1..Len(tries) : tries[i].ok}
    IN  IF accepted # {}
        THEN tries[CHOOSE i \in accepted : \A j \in accepted : i <= j].text
        ELSE DecodeUtf8Ignore(file_content)

\* what a loader finds in a page, a paragraph or a table cell
PartTexts == {<< >>, <<" ">>, <<"a", "b", ".">>}
PartLists == UNION {[1..n -> PartTexts] : n \in 0..MaxParts}

\* lines 79-89: the paragraphs and cells that are not blank
TextParts(paragraphs, cells) ==
    SelectSeq(paragraphs \o cells, LAMBDA part : StrStrip(part) # << >>)

TempPath == "tmp"

ExtractInit ==
    /\ ChunkOff
    /\ IndexOff
    /\ HighlightOff
    /\ SearchOff
    /\ AppOff
    /\ AnalyzerOff
    /\ DetectOff
    /\ ScoreOff
    /\ ex_pc = "idle"
    /\ ex_call \in [file_content : Payloads, filename : Filenames]
    /\ temp_files = {}
    /\ ex_failed = FALSE
    /\ ex_result = "none"

\* extract_text: lines 104-114, with extract_text_from_txt when it is called
ExtractText ==
    /\ ex_pc = "idle"
    /\ LET file_ext == FileExt(ex_call.filename)
       IN  /\ ex_pc' = IF file_ext = ExtPdf THEN "pdf_write"
                       ELSE IF file_ext \in {ExtDocx, ExtDoc} THEN "docx_write"
                       ELSE "done"
           /\ ex_result' = IF file_ext = ExtTxt THEN ExtractTextFromTxt(ex_call.file_content)
                           ELSE IF file_ext \in {ExtPdf, ExtDocx, ExtDoc} THEN "none"
                           ELSE << >>
    /\ UNCHANGED <<ex_call, temp_files, ex_failed, exOthers>>

\* lines 25-27 and 69-71: NamedTemporaryFile(delete=False) and write
ExWrite ==
    /\ ex_pc \in {"pdf_write", "docx_write"}
    /\ temp_files' = temp_files \cup {TempPath}
    /\ ex_pc' = IF ex_pc = "pdf_write" THEN "pdf_load" ELSE "docx_load"
    /\ UNCHANGED <<ex_call, ex_failed, ex_result, exOthers>>

\* lines 30-39: the loader returns the pages, the file is unlinked
ExPdfLoad(pages) ==
    /\ ex_pc = "pdf_load"
    /\ ex_result' = Join(pages, <<"\n">>)
    /\ temp_files' = temp_files \ {TempPath}
    /\ ex_pc' = "done"
    /\ UNCHANGED <<ex_call, ex_failed, exOthers>>

\* lines 76-96: python-docx opens the file, the file is unlinked
ExDocxLoad(paragraphs, cells) ==
    /\ ex_pc = "docx_load"
    /\ ex_result' = Join(TextParts(paragraphs, cells), <<"\n">>)
    /\ temp_files' = temp_files \ {TempPath}
    /\ ex_pc' = "done"
    /\ UNCHANGED <<ex_call, ex_failed, exOthers>>

\* the loader raises in lines 30-31 or 76-89: the except branch of lines
\* 41-43 or 98-100 returns "", and no line unlinks the file
ExLoadRaise ==
    /\ ex_pc \in {"pdf_load", "docx_load"}
    /\ ex_result' = << >>
    /\ ex_failed' = TRUE
    /\ ex_pc' = "done"
    /\ UNCHANGED <<ex_call, temp_files, exOthers>>

ExtractNext ==
    \/ ExtractText
    \/ ExWrite
    \/ \E pages \in PartLists : ExPdfLoad(pages)
    \/ \E paragraphs \in PartLists, cells \in PartLists : ExDocxLoad(paragraphs, cells)
    \/ ExLoadRaise

SpecExtract == ExtractInit /\ [][ExtractNext]_vars

-----------------------------------------------------------------------------
(* AIAnalyzer.analyze_document_risk: the cleaning and parsing of the LLM   *)
(* response, and the keyword fallback _extract_risk_fallback.              *)

MaxTokens == 3          \* pieces in an enumerated LLM response

FallbackLimit == 5          \* line 219
MinSentenceLen == 20        \* line 207
FallbackClauseLimit == 200  \* line 211

\* the grave accent, written by its code point
Tick == "U+0060"

\* the markdown fences of lines 143 and 151
Fence == <<Tick, Tick, Tick>>
JsonFence == Fence \o <<"j", "s", "o", "n">>

\* risk_keywords
RiskKeywords ==
    <<
      <<"r", "i", "s", "k">>,
      <<"p", "r", "o", "b", "l", "e", "m", "a", "t", "i", "c">>,
      <<"c", "o", "n", "c", "e", "r", "n">>,
      <<"w", "a", "r", "n", "i", "n", "g">>,
      <<"c", "a", "u", "t", "i", "o", "n">>,
      <<"p", "e", "n", "a", "l", "t", "y">>,
      <<"f", "e", "e">>
    >>

\* a sentence with keywords in mixed case, one character above the length
\* test of the fallback
LongRiskSentence ==
    <<"L", "a", "t", "e", " ", "F", "E", "E", " ", "i", "s", " ", "a",
      " ", "R", "i", "s", "k", " ", "o", "k">>

\* a sentence with a keyword, exactly at the length test
ShortRiskSentence ==
    <<"a", " ", "p", "e", "n", "a", "l", "t", "y", " ", "o", "f", " ",
      "t", "e", "n", " ", "d", "u", "e">>

\* a sentence without a keyword
PlainSentence ==
    <<"t", "h", "i", "s", " ", "c", "l", "a", "u", "s", "e", " ", "i",
      "s", " ", "a", "l", "l", " ", "f", "i", "n", "e">>

ResponsePieces ==
    {LongRiskSentence, ShortRiskSentence, PlainSentence, <<".">>, <<" ">>,
     JsonFence, Fence, <<"{", "}">>, <<"[", "]">>}

\* more sentences with a keyword than the fallback reports
ManyRisks == Join([i \in 1..(FallbackLimit + 1) |-> LongRiskSentence], <<".">>)

\* one sentence longer than the clause text the fallback keeps
LongClause ==
    Join([i \in 1..(FallbackClauseLimit \div Len(LongRiskSentence) + 1) |->
              LongRiskSentence], <<" ">>)

\* JSON documents an LLM can answer with: their text and what json.loads
\* makes of it (a dict is a function on its keys, a str value an atom)
\* a dict without keys
EmptyObjectText ==
    <<"{", "}">>

\* a list
EmptyArrayText ==
    <<"[", "]">>

\* a dict without risk_factors
AssessmentOnlyText ==
    <<"{", "\"", "o", "v", "e", "r", "a", "l", "l", "_", "a", "s", "s",
      "e", "s", "s", "m", "e", "n", "t", "\"", ":", " ", "\"", "o", "k",
      "\"", "}">>

\* a dict without overall_assessment
FactorsOnlyText ==
    <<"{", "\"", "r", "i", "s", "k", "_", "f", "a", "c", "t", "o", "r",
      "s", "\"", ":", " ", "[", "{", "\"", "c", "l", "a", "u", "s", "e",
      "_", "t", "e", "x", "t", "\"", ":", " ", "\"", "a", "b", "c", "\"",
      "}", "]", "}">>

\* a dict with both keys
CompleteText ==
    <<"{", "\"", "r", "i", "s", "k", "_", "f", "a", "c", "t", "o", "r",
      "s", "\"", ":", " ", "[", "]", ",", " ", "\"", "o", "v", "e", "r",
      "a", "l", "l", "_", "a", "s", "s", "e", "s", "s", "m", "e", "n",
      "t", "\"", ":", " ", "\"", "o", "k", "\"", "}">>

\* a dict with a string that holds three grave accents
FenceInsideText ==
    <<"{", "\"", "o", "v", "e", "r", "a", "l", "l", "_", "a", "s", "s",
      "e", "s", "s", "m", "e", "n", "t", "\"", ":", " ", "\"", "s", "e",
      "e", " ", Tick, Tick, Tick, " ", "i", "n", " ", "2", "\"", "}">>

\* a dict with a risk factor whose severity is null
NullSeverityText ==
    <<"{", "\"", "r", "i", "s", "k", "_", "f", "a", "c", "t", "o", "r",
      "s", "\"", ":", " ", "[", "{", "\"", "c", "l", "a", "u", "s", "e",
      "_", "t", "e", "x", "t", "\"", ":", " ", "\"", "a", "b", "c", "\"",
      ",", " ", "\"", "s", "e", "v", "e", "r", "i", "t", "y", "\"", ":",
      " ", "n", "u", "l", "l", "}", "]", "}">>

NullSeverityFactor ==
    [k \in {"clause_text", "severity"} |->
        IF k = "clause_text" THEN <<"a", "b", "c">> ELSE Null]

\* a JSON string
QuotedSentenceText ==
    <<"\"", "L", "a", "t", "e", " ", "F", "E", "E", " ", "i", "s", " ",
      "a", " ", "R", "i", "s", "k", " ", "o", "k", "\"">>

JsonDocs ==
    {[text |-> EmptyObjectText, is_dict |-> TRUE, value |-> << >>],
     [text |-> EmptyArrayText, is_dict |-> FALSE, value |-> << >>],
     [text |-> AssessmentOnlyText, is_dict |-> TRUE, value |-> [overall_assessment |-> "ok"]],
     [text |-> FactorsOnlyText, is_dict |-> TRUE, value |-> [risk_factors |-> <<[clause_text |-> <<"a", "b", "c">>]>>]],
     [text |-> CompleteText, is_dict |-> TRUE, value |-> [risk_factors |-> << >>, overall_assessment |-> "ok"]],
     [text |-> FenceInsideText, is_dict |-> TRUE, value |-> [overall_assessment |-> "see U+0060U+0060U+0060 in 2"]],
     [text |-> NullSeverityText, is_dict |-> TRUE, value |-> [risk_factors |-> <<NullSeverityFactor>>]],
     [text |-> QuotedSentenceText, is_dict |-> FALSE, value |-> << >>]}

\* the forms a document is answered in: bare, in a json block, in a generic
\* fence, and in a json block after a sentence
Unfenced(doc) == doc
JsonFenced(doc) == JsonFence \o <<"\n">> \o doc \o <<"\n">> \o Fence
GenericFenced(doc) == Fence \o <<"\n">> \o doc \o <<"\n">> \o Fence
Introduced(doc) == PlainSentence \o <<".", "\n">> \o JsonFenced(doc)
FormsOf(doc) == {Unfenced(doc), JsonFenced(doc), GenericFenced(doc), Introduced(doc)}

Responses ==
    {Join(ps, << >>) : ps \in UNION {[1..n -> ResponsePieces] : n \in 0..MaxTokens}}
        \cup {ManyRisks, LongClause}
        \cup UNION {FormsOf(d.text) : d \in JsonDocs}

\* needle in haystack
Contains(haystack, needle) == Find(haystack, needle) # -1

\* haystack.find(needle, start)
FindFrom(haystack, needle, start) ==
    LET at == Find(SubSeq(haystack, start + 1, Len(haystack)), needle)
    IN  IF at = -1 THEN -1 ELSE at + start

\* s.startswith(prefix), s.endswith(suffix)
StartsWith(s, prefix) ==
    Len(s) >= Len(prefix) /\ SubSeq(s, 1, Len(prefix)) = prefix
EndsWith(s, suffix) ==
    Len(s) >= Len(suffix) /\ SubSeq(s, Len(s) - Len(suffix) + 1, Len(s)) = suffix

\* s.split(sep)
RECURSIVE Split(_, _)
Split(s, sep) ==
    LET i == Find(s, sep)
    IN  IF i = -1 THEN <<s>>
        ELSE <<SubSeq(s, 1, i)>> \o Split(SubSeq(s, i + Len(sep) + 1, Len(s)), sep)

\* lines 143-147: the content of a fenced json block replaces the response
ExtractJsonBlock(result) ==
    IF Contains(result, JsonFence)
    THEN LET json_start == Find(result, JsonFence) + 7
             json_end   == FindFrom(result, Fence, json_start)
         IN  IF json_end # -1
             THEN StrStrip(SubSeq(result, json_start + 1, json_end))
             ELSE result
    ELSE result

\* lines 150-152: strip, then drop a generic fence around the whole text
StripFence(result) ==
    LET stripped == StrStrip(result)
    IN  IF StartsWith(stripped, Fence) /\ EndsWith(stripped, Fence)
        THEN StrStrip(SubSeq(stripped, 4, Len(stripped) - 3))
        ELSE stripped

\* the value of result at json.loads
Cleaned(response) == StripFence(ExtractJsonBlock(response))

\* json.loads on a cleaned response: among the texts that Responses can be
\* cleaned to, the texts of JsonDocs are the only JSON documents
JsonLoads(s) ==
    IF \E d \in JsonDocs : d.text = s
    THEN LET d == CHOOSE d \in JsonDocs : d.text = s
         IN  [ok |-> TRUE, is_dict |-> d.is_dict, value |-> d.value]
    ELSE [ok |-> FALSE, is_dict |-> FALSE, value |-> << >>]

\* lines 160-164
WithDefaults(risk_data) ==
    [key \in DOMAIN risk_data \cup {"risk_factors", "overall_assessment"} |->
        IF key \in DOMAIN risk_data THEN risk_data[key]
        ELSE IF key = "risk_factors" THEN << >>
        ELSE "Analysis completed"]

\* lines 203-208, on the stripped sentence
IsRiskSentence(sentence) ==
    /\ \E i \in DOMAIN RiskKeywords :
           Contains(StrLower(sentence), StrLower(RiskKeywords[i]))
    /\ Len(sentence) > MinSentenceLen

\* lines 210-216
FallbackEntry(sentence) ==
    [clause_text |-> Take(sentence, FallbackClauseLimit),
     category    |-> "standard",
     severity    |-> "medium",
     explanation |-> "Potential risk identified by text analysis",
     suggestion  |-> "Review this clause carefully with legal counsel"]

\* the loop of lines 201-220 from the sentences not yet visited
RECURSIVE FallbackLoop(_, _)
FallbackLoop(sentences, factors) ==
    IF sentences = << >> THEN factors
    ELSE LET sentence == StrStrip(Head(sentences))
         IN  IF IsRiskSentence(sentence)
             THEN LET appended == Append(factors, FallbackEntry(sentence))
                  IN  IF Len(appended) >= FallbackLimit THEN appended
                      ELSE FallbackLoop(Tail(sentences), appended)
             ELSE FallbackLoop(Tail(sentences), factors)

\* _extract_risk_fallback(response, original_text); original_text is not
\* read, and nothing in the try block raises on a str
ExtractRiskFallback(response) ==
    [risk_factors       |-> FallbackLoop(Split(response, <<".">>), << >>),
     overall_assessment |->
         "Risk analysis completed with limited parsing. Please review manually."]

\* lines 141-171: risk_data from the response of the chain
ParseRisk(response) ==
    LET result == Cleaned(response)
        parsed == JsonLoads(result)
    IN  IF parsed.ok /\ parsed.is_dict THEN WithDefaults(parsed.value)
        ELSE ExtractRiskFallback(result)

SimplifiedLimit == 500    \* lines 267, 275, 286

\* the texts handed to the analyzer: none, a short one, and one longer
\* than the prefix that simplify_text echoes
AnTexts ==
    {<< >>, PlainSentence, [i \in 1..(SimplifiedLimit + 1) |-> IF i % 2 = 1 THEN "a" ELSE " "]}

\* what the summary and answer chains reply
ChainReplies == {<< >>, <<" ", "o", "k", "\n">>, PlainSentence}

\* what the simplification chain replies
SimplifyResponses == UNION {FormsOf(d.text) : d \in JsonDocs} \cup {PlainSentence}

Ellipsis == <<".", ".", ".">>

UnavailableMarker ==
    <<".", ".", ".", " ", "(", "F", "u", "l", "l", " ", "s", "i", "m",
      "p", "l", "i", "f", "i", "c", "a", "t", "i", "o", "n", " ", "u",
      "n", "a", "v", "a", "i", "l", "a", "b", "l", "e", ")">>

\* lines 266-271: the keys a parsed dict lacks
SimplifyDefaults(simplified_data, text) ==
    [key \in DOMAIN simplified_data
                 \cup {"simplified_text", "key_points", "jargon_definitions"} |->
        IF key \in DOMAIN simplified_data THEN simplified_data[key]
        ELSE IF key = "simplified_text" THEN Take(text, SimplifiedLimit) \o Ellipsis
        ELSE IF key = "key_points" THEN <<"Unable to extract key points">>
        ELSE << >>]

\* lines 246-281: simplified_data from the response of the chain
ParseSimplified(response, text) ==
    LET parsed == JsonLoads(Cleaned(response))
    IN  IF parsed.ok /\ parsed.is_dict THEN SimplifyDefaults(parsed.value, text)
        ELSE [simplified_text    |-> Take(text, SimplifiedLimit) \o UnavailableMarker,
              key_points         |-> <<"Document content requires legal review">>,
              jargon_definitions |-> << >>]

\* lines 285-290 without the cut at line 286
SimplifyFailedWhole(text) ==
    [simplified_text    |-> text \o Ellipsis,
     key_points         |-> <<"Simplification failed - showing original text">>,
     jargon_definitions |-> << >>]

\* lines 285-290
SimplifyFailed(text) ==
    [simplified_text    |-> Take(text, SimplifiedLimit) \o Ellipsis,
     key_points         |-> <<"Simplification failed - showing original text">>,
     jargon_definitions |-> << >>]

\* line 306
SummaryFailed ==
    <<"U", "n", "a", "b", "l", "e", " ", "t", "o", " ", "g", "e", "n",
      "e", "r", "a", "t", "e", " ", "s", "u", "m", "m", "a", "r", "y">>

\* line 340
AnswerFailed ==
    <<"S", "o", "r", "r", "y", ",", " ", "I", " ", "c", "o", "u", "l",
      "d", "n", "'", "t", " ", "p", "r", "o", "c", "e", "s", "s", " ",
      "y", "o", "u", "r", " ", "q", "u", "e", "s", "t", "i", "o", "n",
      ".", " ", "P", "l", "e", "a", "s", "e", " ", "t", "r", "y", " ",
      "a", "g", "a", "i", "n", ".">>

AnalyzerInit ==
    /\ ChunkOff
    /\ IndexOff
    /\ HighlightOff
    /\ SearchOff
    /\ AppOff
    /\ ExtractOff
    /\ DetectOff
    /\ ScoreOff
    /\ an_pc = "idle"
    /\ an_op = "none"
    /\ an_text = << >>
    /\ an_response = << >>
    /\ an_raised = FALSE
    /\ an_result = NoRiskData
    /\ an_prev_raised = FALSE

\* analyze_document_risk up to the call of the chain: lines 127-135
AnalyzeDocumentRisk(text) ==
    /\ an_pc = "idle"
    /\ an_pc' = "llm"
    /\ an_op' = "analyze_document_risk"
    /\ an_text' = text
    /\ UNCHANGED <<an_response, an_raised, an_result, an_prev_raised, anOthers>>

\* risk_chain.run returns: lines 135-176
RiskRun(response) ==
    /\ an_pc = "llm"
    /\ an_op = "analyze_document_risk"
    /\ an_response' = response
    /\ an_result' = ParseRisk(response)
    /\ an_pc' = "done"
    /\ UNCHANGED <<an_op, an_text, an_raised, an_prev_raised, anOthers>>

\* risk_chain.run raises: lines 178-180
RiskRunRaise ==
    /\ an_pc = "llm"
    /\ an_op = "analyze_document_risk"
    /\ an_raised' = TRUE
    /\ an_result' = [risk_factors |-> << >>, overall_assessment |-> "Analysis failed"]
    /\ an_pc' = "done"
    /\ UNCHANGED <<an_op, an_text, an_response, an_prev_raised, anOthers>>

\* simplify_text up to the call of the chain: lines 236-241
SimplifyText(text) ==
    /\ an_pc = "idle"
    /\ an_pc' = "llm"
    /\ an_op' = "simplify_text"
    /\ an_text' = text
    /\ UNCHANGED <<an_response, an_raised, an_result, an_prev_raised, anOthers>>

\* simplification_chain.run returns: lines 241-281
SimplifyRun(response) ==
    /\ an_pc = "llm"
    /\ an_op = "simplify_text"
    /\ an_response' = response
    /\ an_result' = ParseSimplified(response, an_text)
    /\ an_pc' = "done"
    /\ UNCHANGED <<an_op, an_text, an_raised, an_prev_raised, anOthers>>

\* simplification_chain.run raises: lines 283-290
SimplifyRunRaise ==
    /\ an_pc = "llm"
    /\ an_op = "simplify_text"
    /\ an_raised' = TRUE
    /\ an_result' = SimplifyFailed(an_text)
    /\ an_pc' = "done"
    /\ UNCHANGED <<an_op, an_text, an_response, an_prev_raised, anOthers>>

\* generate_summary up to the call of the chain: lines 295-298
GenerateSummary(text) ==
    /\ an_pc = "idle"
    /\ an_pc' = "llm"
    /\ an_op' = "generate_summary"
    /\ an_text' = text
    /\ UNCHANGED <<an_response, an_raised, an_result, an_prev_raised, anOthers>>

\* summary_chain.run returns: lines 298-302
SummaryRun(summary) ==
    /\ an_pc = "llm"
    /\ an_op = "generate_summary"
    /\ an_response' = summary
    /\ an_result' = StrStrip(summary)
    /\ an_pc' = "done"
    /\ UNCHANGED <<an_op, an_text, an_raised, an_prev_raised, anOthers>>

\* summary_chain.run raises: lines 304-306
SummaryRunRaise ==
    /\ an_pc = "llm"
    /\ an_op = "generate_summary"
    /\ an_raised' = TRUE
    /\ an_result' = SummaryFailed
    /\ an_pc' = "done"
    /\ UNCHANGED <<an_op, an_text, an_response, an_prev_raised, anOthers>>

\* answer_question up to the call of the chain: lines 312-330
AnswerQuestion(document_text) ==
    /\ an_pc = "idle"
    /\ an_pc' = "llm"
    /\ an_op' = "answer_question"
    /\ an_text' = document_text
    /\ UNCHANGED <<an_response, an_raised, an_result, an_prev_raised, anOthers>>

\* qa_chain.run returns: lines 330-336
AnswerRun(answer) ==
    /\ an_pc = "llm"
    /\ an_op = "answer_question"
    /\ an_response' = answer
    /\ an_result' = StrStrip(answer)
    /\ an_pc' = "done"
    /\ UNCHANGED <<an_op, an_text, an_raised, an_prev_raised, anOthers>>

\* qa_chain.run raises: lines 338-340
AnswerRunRaise ==
    /\ an_pc = "llm"
    /\ an_op = "answer_question"
    /\ an_raised' = TRUE
    /\ an_result' = AnswerFailed
    /\ an_pc' = "done"
    /\ UNCHANGED <<an_op, an_text, an_response, an_prev_raised, anOthers>>

\* the caller takes the result; the analyzer keeps nothing of the call
AnReturn ==
    /\ an_pc = "done"
    /\ an_pc' = "idle"
    /\ an_prev_raised' = an_raised
    /\ an_op' = "none"
    /\ an_text' = << >>
    /\ an_response' = << >>
    /\ an_raised' = FALSE
    /\ an_result' = NoRiskData
    /\ UNCHANGED anOthers

AnalyzerNext ==
    \/ \E text \in AnTexts : AnalyzeDocumentRisk(text)
    \/ \E response \in Responses : RiskRun(response)
    \/ RiskRunRaise
    \/ \E text \in AnTexts : SimplifyText(text)
    \/ \E response \in SimplifyResponses : SimplifyRun(response)
    \/ SimplifyRunRaise
    \/ \E text \in AnTexts : GenerateSummary(text)
    \/ \E summary \in ChainReplies : SummaryRun(summary)
    \/ SummaryRunRaise
    \/ \E document_text \in AnTexts : AnswerQuestion(document_text)
    \/ \E answer \in ChainReplies : AnswerRun(answer)
    \/ AnswerRunRaise
    \/ AnReturn

SpecAnalyzer == AnalyzerInit /\ [][AnalyzerNext]_vars

-----------------------------------------------------------------------------
(* DocumentProcessor.detect_document_type *)

MaxRepeat == 2      \* times a word is repeated in an enumerated text

ScoreThreshold == 2     \* line 189

RentalKeywords ==
    <<<<"l", "e", "a", "s", "e">>,
      <<"r", "e", "n", "t">>,
      <<"t", "e", "n", "a", "n", "t">>,
      <<"l", "a", "n", "d", "l", "o", "r", "d">>,
      <<"p", "r", "o", "p", "e", "r", "t", "y">>,
      <<"p", "r", "e", "m", "i", "s", "e", "s">>,
      <<"d", "e", "p", "o", "s", "i", "t">>>>

LoanKeywords ==
    <<<<"l", "o", "a", "n">>,
      <<"b", "o", "r", "r", "o", "w">>,
      <<"l", "e", "n", "d", "e", "r">>,
      <<"p", "r", "i", "n", "c", "i", "p", "a", "l">>,
      <<"i", "n", "t", "e", "r", "e", "s", "t">>,
      <<"r", "e", "p", "a", "y", "m", "e", "n", "t">>,
      <<"c", "r", "e", "d", "i", "t">>>>

EmploymentKeywords ==
    <<<<"e", "m", "p", "l", "o", "y", "m", "e", "n", "t">>,
      <<"e", "m", "p", "l", "o", "y", "e", "e">>,
      <<"e", "m", "p", "l", "o", "y", "e", "r">>,
      <<"s", "a", "l", "a", "r", "y">>,
      <<"w", "a", "g", "e", "s">>,
      <<"p", "o", "s", "i", "t", "i", "o", "n">>,
      <<"j", "o", "b">>>>

NdaKeywords ==
    <<<<"c", "o", "n", "f", "i", "d", "e", "n", "t", "i", "a", "l">>,
      <<"n", "o", "n", "-", "d", "i", "s", "c", "l", "o", "s", "u", "r", "e">>,
      <<"p", "r", "o", "p", "r", "i", "e", "t", "a", "r", "y">>,
      <<"t", "r", "a", "d", "e", " ", "s", "e", "c", "r", "e", "t">>>>

ServiceKeywords ==
    <<<<"s", "e", "r", "v", "i", "c", "e">>,
      <<"p", "r", "o", "v", "i", "d", "e", "r">>,
      <<"c", "l", "i", "e", "n", "t">>,
      <<"d", "e", "l", "i", "v", "e", "r", "a", "b", "l", "e", "s">>,
      <<"s", "c", "o", "p", "e", " ", "o", "f", " ", "w", "o", "r", "k">>>>

\* the keys of scores in insertion order: lines 169-185
Categories == <<"rental", "loan", "employment", "nda", "service">>

KeywordsOf(category) ==
    CASE category = "rental"     -> RentalKeywords
      [] category = "loan"       -> LoanKeywords
      [] category = "employment" -> EmploymentKeywords
      [] category = "nda"        -> NdaKeywords
      [] category = "service"    -> ServiceKeywords

\* sum(1 for keyword in keywords if keyword in text_lower)
Score(keywords, text_lower) ==
    Cardinality({i \in DOMAIN keywords : Find(text_lower, keywords[i]) # -1})

\* lines 169-185
Scores(text) ==
    [i \in DOMAIN Categories |-> Score(KeywordsOf(Categories[i]), StrLower(text))]

\* max(scores.values())
MaxScore(scores) == CHOOSE m \in {scores[i] : i \in DOMAIN scores} :
                        \A i \in DOMAIN scores : scores[i] <= m

\* lines 188-192 with the last of the highest scores taken
DetectLastMax(text) ==
    LET scores == Scores(text)
    IN  IF MaxScore(scores) > ScoreThreshold
        THEN Categories[CHOOSE i \in DOMAIN scores :
                 /\ scores[i] = MaxScore(scores)
                 /\ \A j \in (i + 1)..Len(scores) : scores[j] < MaxScore(scores)]
        ELSE "other"

\* lines 188-192; max(scores, key=scores.get) is the first key in
\* insertion order whose score is the highest
DetectDocumentType(text) ==
    LET scores == Scores(text)
    IN  IF MaxScore(scores) > ScoreThreshold
        THEN Categories[CHOOSE i \in DOMAIN scores :
                 /\ scores[i] = MaxScore(scores)
                 /\ \A j \in 1..(i - 1) : scores[j] < MaxScore(scores)]
        ELSE "other"

\* the words of the enumerated texts: three rental keywords (one in upper
\* case), three loan keywords, and a word that holds a keyword
DetectWords ==
    <<<<"l", "e", "a", "s", "e">>,
      <<"T", "E", "N", "A", "N", "T">>,
      <<"l", "a", "n", "d", "l", "o", "r", "d">>,
      <<"l", "o", "a", "n">>,
      <<"l", "e", "n", "d", "e", "r">>,
      <<"b", "o", "r", "r", "o", "w">>,
      <<"p", "l", "e", "a", "s", "e">>>>

\* w repeated n times, a blank after every copy
RECURSIVE Repeat(_, _)
Repeat(w, n) == IF n = 0 THEN << >> ELSE w \o <<" ">> \o Repeat(w, n - 1)

\* the text with every word of DetectWords repeated as counts tells
RECURSIVE WordsText(_, _)
WordsText(counts, i) ==
    IF i > Len(DetectWords) THEN << >>
    ELSE Repeat(DetectWords[i], counts[i]) \o WordsText(counts, i + 1)

\* texts in which two categories later in the table share the highest score
TiedTexts ==
    {Join(<<<<"e", "m", "p", "l", "o", "y", "m", "e", "n", "t">>, <<"s", "a", "l", "a", "r", "y">>, <<"j", "o", "b">>, <<"c", "o", "n", "f", "i", "d", "e", "n", "t", "i", "a", "l">>, <<"p", "r", "o", "p", "r", "i", "e", "t", "a", "r", "y">>, <<"t", "r", "a", "d", "e", " ", "s", "e", "c", "r", "e", "t">>>>, <<" ">>),
     Join(<<<<"s", "e", "r", "v", "i", "c", "e">>, <<"p", "r", "o", "v", "i", "d", "e", "r">>, <<"c", "l", "i", "e", "n", "t">>, <<"c", "o", "n", "f", "i", "d", "e", "n", "t", "i", "a", "l">>, <<"p", "r", "o", "p", "r", "i", "e", "t", "a", "r", "y">>, <<"t", "r", "a", "d", "e", " ", "s", "e", "c", "r", "e", "t">>>>, <<" ">>)}

DetectTexts ==
    {WordsText(counts, 1) : counts \in [DOMAIN DetectWords -> 0..MaxRepeat]} \cup TiedTexts

DetectInit ==
    /\ ChunkOff
    /\ IndexOff
    /\ HighlightOff
    /\ SearchOff
    /\ AppOff
    /\ ExtractOff
    /\ AnalyzerOff
    /\ ScoreOff
    /\ dt_pc = "idle"
    /\ dt_text \in DetectTexts
    /\ dt_result = "none"

\* detect_document_type(text): lines 120-192
DetectCall ==
    /\ dt_pc = "idle"
    /\ dt_result' = DetectDocumentType(dt_text)
    /\ dt_pc' = "done"
    /\ UNCHANGED <<dt_text, dtOthers>>

DetectNext == DetectCall

SpecDetect == DetectInit /\ [][DetectNext]_vars

-----------------------------------------------------------------------------
(* helpers.calculate_risk_score *)

MaxFactors == 8     \* risk factors in a scored list

ScoreCap == 100     \* line 121

\* risk_weights.get(severity, 0): line 113
RiskWeight(severity) ==
    CASE severity = <<"c", "r", "i", "t", "i", "c", "a", "l">> -> 25
      [] severity = <<"h", "i", "g", "h">> -> 15
      [] severity = <<"m", "e", "d", "i", "u", "m">> -> 8
      [] severity = <<"l", "o", "w">> -> 3
      [] OTHER -> 0

\* the loop of lines 115-118
RECURSIVE TotalScore(_)
TotalScore(factors) ==
    IF factors = << >> THEN 0
    ELSE RiskWeight(StrLower(Get(Head(factors), "severity", <<"l", "o", "w">>)))
             + TotalScore(Tail(factors))

\* lines 110-118 without the cap of line 121
CalculateRiskScoreUncapped(factors) ==
    IF factors = << >> THEN 0 ELSE TotalScore(factors)

\* calculate_risk_score(risk_factors)
CalculateRiskScore(factors) ==
    IF factors = << >> THEN 0 ELSE Min(TotalScore(factors), ScoreCap)

\* the risk factors scored: the four severities (one in upper case), no
\* severity, and a severity the weights do not know
ScoredFactors ==
    <<[severity |-> <<"c", "r", "i", "t", "i", "c", "a", "l">>],
      [severity |-> <<"H", "I", "G", "H">>],
      [severity |-> <<"m", "e", "d", "i", "u", "m">>],
      [severity |-> <<"l", "o", "w">>],
      [clause_text |-> <<"a", "b", "c">>],
      [severity |-> <<"s", "e", "v", "e", "r", "e">>]>>

ScoreInit ==
    /\ ChunkOff
    /\ IndexOff
    /\ HighlightOff
    /\ SearchOff
    /\ AppOff
    /\ ExtractOff
    /\ AnalyzerOff
    /\ DetectOff
    /\ rs_pc = "on"
    /\ rs_factors = << >>
    /\ rs_score = CalculateRiskScore(<< >>)
    /\ rs_prev = 0

\* the list grows by one factor and is scored again; the lists are built
\* in the order of ScoredFactors, which the score does not depend on
ScoreAdd(k) ==
    /\ rs_pc = "on"
    /\ Len(rs_factors) < MaxFactors
    /\ rs_factors # << >> => rs_factors[Len(rs_factors)] \in {ScoredFactors[j] : j \in 1..k}
    /\ rs_factors' = Append(rs_factors, ScoredFactors[k])
    /\ rs_score' = CalculateRiskScore(rs_factors')
    /\ rs_prev' = rs_score
    /\ UNCHANGED <<rs_pc, rsOthers>>

ScoreNext == \E k \in DOMAIN ScoredFactors : ScoreAdd(k)

SpecScore == ScoreInit /\ [][ScoreNext]_vars

-----------------------------------------------------------------------------
(* Inputs and steps of one create_advanced_highlighting call *)

MaxWords == 2         \* words in an enumerated text
MaxRisks == 2         \* risk factors in an enumerated list
MaxTerms == 2         \* items in an enumerated jargon dict

HlWords == {<<"a", "b", "c">>, <<"d", "e">>}

\* the words joined by single blanks
RECURSIVE JoinWords(_)
JoinWords(ws) ==
    IF ws = << >> THEN << >>
    ELSE IF Len(ws) = 1 THEN ws[1]
    ELSE ws[1] \o <<" ">> \o JoinWords(Tail(ws))

\* a text with more occurrences of a term than are highlighted
HlRepeated == JoinWords([i \in 1..(MaxJargonSpans + 1) |-> <<"a", "b", "c">>])

\* a text with a clause at its start, a term after it, and a second clause
\* further right than the markup of the first clause is long
HlSpaced ==
    <<"a", "b", "c", " ", "a", "b", "c", " ">> \o [i \in 1..60 |-> "x"]
    \o <<" ", "c", " ", "d", "e">>

HlTexts ==
    {JoinWords(ws) : ws \in UNION {[1..n -> HlWords] : n \in 1..MaxWords}}
    \cup {HlRepeated, HlSpaced}

\* risk factors as the analyzer returns them: with the clause text alone,
\* with all keys, with a clause text to strip, and without a clause text
HlFactors ==
    {[k \in {"clause_text"} |-> <<"a", "b", "c">>],
     [k \in {"clause_text", "severity", "explanation", "suggestion"} |->
         CASE k = "clause_text" -> <<"a", "b", "c">>
           [] k = "severity"    -> <<"h", "i", "g", "h">>
           [] k = "explanation" -> <<"a", "\"", "<", "b", ">">>
           [] OTHER             -> <<"f", "i", "x">>],
     [k \in {"clause_text"} |-> <<"c", " ", "d", "e", " ">>],
     [k \in {"severity"} |-> <<"h", "i", "g", "h">>]}

HlRiskLists == UNION {[1..n -> HlFactors] : n \in 0..MaxRisks}

HlTerms ==
    {<<"a", "b", "c">>, <<"A", "B", "C">>, <<"d", "e">>,
     <<"a", "b", "c", " ", "d", "e">>}

HlDefinition == <<"a", " ", "\"", "t", "e", "r", "m", "\"">>

\* a dict: its items in insertion order, the keys distinct
HlJargonDicts ==
    {[i \in DOMAIN ts |-> <<ts[i], HlDefinition>>] :
        ts \in {t \in UNION {[1..m -> HlTerms] : m \in 0..MaxTerms} :
                   \A i, j \in DOMAIN t : i # j => t[i] # t[j]}}

\* lines 16-17, 20
HighlightInit ==
    /\ ChunkOff
    /\ IndexOff
    /\ RestOff
    /\ hl_pc = "risk"
    /\ hl_text \in HlTexts
    /\ risk_factors \in HlRiskLists
    /\ jargon_definitions \in HlJargonDicts
    /\ highlighted_text = hl_text
    /\ processed_positions = {}
    /\ risk_replacements = << >>
    /\ jargon_replacements = << >>

\* lines 21-55: collect the risk replacements and sort them
HlCollectRisk ==
    /\ hl_pc = "risk"
    /\ ~RiskLoopRaises(highlighted_text, risk_factors)
    /\ risk_replacements' = CollectRisk(highlighted_text, risk_factors)
    /\ hl_pc' = "apply_risk"
    /\ UNCHANGED <<hl_text, risk_factors, jargon_definitions, highlighted_text,
                   processed_positions, jargon_replacements, hlOthers>>

\* lines 58-65: apply them
HlApplyRisk ==
    /\ hl_pc = "apply_risk"
    /\ highlighted_text' = ApplyReplacements(highlighted_text, risk_replacements)
    /\ processed_positions' = processed_positions \cup RiskPositions(risk_replacements)
    /\ hl_pc' = "jargon"
    /\ UNCHANGED <<hl_text, risk_factors, jargon_definitions, risk_replacements,
                   jargon_replacements, hlOthers>>

\* lines 68-100: collect the jargon replacements and sort them
HlCollectJargon ==
    /\ hl_pc = "jargon"
    /\ ~JargonLoopRaises(jargon_definitions)
    /\ jargon_replacements' =
           CollectJargon(highlighted_text, processed_positions, jargon_definitions)
    /\ hl_pc' = "apply_jargon"
    /\ UNCHANGED <<hl_text, risk_factors, jargon_definitions, highlighted_text,
                   processed_positions, risk_replacements, hlOthers>>

\* lines 103-111: apply the first five and return
HlApplyJargon ==
    /\ hl_pc = "apply_jargon"
    /\ highlighted_text' =
           ApplyReplacements(highlighted_text, Take(jargon_replacements, MaxJargonSpans))
    /\ hl_pc' = "done"
    /\ UNCHANGED <<hl_text, risk_factors, jargon_definitions, processed_positions,
                   risk_replacements, jargon_replacements, hlOthers>>

HighlightNext == HlCollectRisk \/ HlApplyRisk \/ HlCollectJargon \/ HlApplyJargon

SpecHighlight == HighlightInit /\ [][HighlightNext]_vars

\* risk factors of a parsed response (ai_analyzer.py lines 154-164 return
\* the parsed dict with the values it has): the well-formed ones, factors
\* with a null severity, explanation or suggestion, a factor whose clause
\* text is null and an entry that is a str
HlParsedFactors ==
    HlFactors
    \cup {NullSeverityFactor,
          [k \in {"clause_text", "explanation"} |->
              IF k = "clause_text" THEN <<"d", "e">> ELSE Null],
          [k \in {"clause_text", "suggestion"} |->
              IF k = "clause_text" THEN <<"d", "e">> ELSE Null],
          [k \in {"clause_text", "severity"} |->
              IF k = "clause_text" THEN Null ELSE <<"l", "o", "w">>],
          JsonString(<<"a", "b", "c">>)}

\* jargon_definitions of a parsed response (lines 259-271): str
\* definitions, and a null definition for a long or a short term
HlParsedDicts ==
    {<< >>,
     <<<<(<<"a", "b", "c">>), HlDefinition>>>>,
     <<<<(<<"a", "b", "c">>), Null>>>>,
     <<<<(<<"d", "e">>), Null>>>>,
     <<<<(<<"d", "e">>), HlDefinition>>, <<(<<"a", "b", "c">>), Null>>>>}

\* lines 16-17, 20, called with the fields of a parsed response
ParsedInit ==
    /\ ChunkOff
    /\ IndexOff
    /\ RestOff
    /\ hl_pc = "risk"
    /\ hl_text \in {JoinWords(ws) : ws \in [1..2 -> HlWords]}
    /\ risk_factors \in UNION {[1..n -> HlParsedFactors] : n \in 0..MaxRisks}
    /\ jargon_definitions \in HlParsedDicts
    /\ highlighted_text = hl_text
    /\ processed_positions = {}
    /\ risk_replacements = << >>
    /\ jargon_replacements = << >>

\* a statement of lines 22-42 raises; the function has no try
HlCollectRiskRaise ==
    /\ hl_pc = "risk"
    /\ RiskLoopRaises(highlighted_text, risk_factors)
    /\ hl_pc' = "raised"
    /\ UNCHANGED <<hl_text, risk_factors, jargon_definitions, highlighted_text,
                   processed_positions, risk_replacements, jargon_replacements,
                   hlOthers>>

\* line 74 raises
HlCollectJargonRaise ==
    /\ hl_pc = "jargon"
    /\ JargonLoopRaises(jargon_definitions)
    /\ hl_pc' = "raised"
    /\ UNCHANGED <<hl_text, risk_factors, jargon_definitions, highlighted_text,
                   processed_positions, risk_replacements, jargon_replacements,
                   hlOthers>>

ParsedNext ==
    \/ HlCollectRisk
    \/ HlCollectRiskRaise
    \/ HlApplyRisk
    \/ HlCollectJargon
    \/ HlCollectJargonRaise
    \/ HlApplyJargon

SpecParsed == ParsedInit /\ [][ParsedNext]_vars

-----------------------------------------------------------------------------
(* Inputs of the chunker specification *)

MaxTextLen == 8       \* longest enumerated text
MaxMarks == 2         \* at most this many periods/blanks in an enumerated text
MaxChunkSize == 7     \* largest enumerated chunk_size
MaxIter == 10         \* loop iterations followed before the run is cut off

ChunkAlphabet == {"a", ".", " "}

ChunkTexts ==
    UNION {{t \in [1..n -> ChunkAlphabet] :
               Cardinality({i \in 1..n : t[i] # "a"}) <= MaxMarks} : n \in 0..MaxTextLen}

\* the 2500-character punctuation-free text
LongText == [i \in 1..2500 |-> "a"]

ChunkInit ==
    /\ IndexOff
    /\ HighlightOff
    /\ RestOff
    /\ ck_pc = "loop"
    /\ ck_fn \in {"_chunk_document", "chunk_text"}
    /\ \/ /\ ck_text \in ChunkTexts
          /\ ck_chunk_size \in 1..MaxChunkSize
          /\ ck_overlap \in 0..ck_chunk_size
       \/ /\ ck_text = LongText
          /\ ck_chunk_size = DefaultChunkSize
          /\ ck_overlap = DefaultOverlap
    /\ ck_start = 0
    /\ ck_chunks = << >>
    /\ ck_windows = << >>
    /\ ck_result = "none"

\* while start < len(text): one iteration
ChunkLoop ==
    /\ ck_pc = "loop"
    /\ ck_start < Len(ck_text)
    /\ Len(ck_windows) < MaxIter
    /\ LET st == ChunkIter(ck_fn, ck_text, ck_chunk_size, ck_overlap,
                           [start |-> ck_start, chunks |-> ck_chunks,
                            windows |-> ck_windows])
       IN  /\ ck_start' = st.start
           /\ ck_chunks' = st.chunks
           /\ ck_windows' = st.windows
    /\ UNCHANGED <<ck_pc, ck_fn, ck_text, ck_chunk_size, ck_overlap, ck_result, ckOthers>>

\* loop exit and return
ChunkDone ==
    /\ ck_pc = "loop"
    /\ ck_start >= Len(ck_text)
    /\ ck_pc' = "done"
    /\ ck_result' = ChunkReturn(ck_fn, ck_chunks)
    /\ UNCHANGED <<ck_fn, ck_text, ck_chunk_size, ck_overlap, ck_start,
                   ck_chunks, ck_windows, ckOthers>>

ChunkNext == ChunkLoop \/ ChunkDone

SpecChunk == ChunkInit /\ [][ChunkNext]_vars

-----------------------------------------------------------------------------
(* Chunker claims *)

\* the 0-based indices of text that the slice text[lo:hi] holds
SliceRange(n, lo, hi) ==
    LET l0 == IF lo < 0 THEN Max(lo + n, 0) ELSE Min(lo, n)
        h0 == IF hi < 0 THEN Max(hi + n, 0) ELSE Min(hi, n)
    IN  {k \in 0..(n - 1) : l0 <= k /\ k < h0}

\* characters of the text that the i-th and j-th appended chunks both hold
Shared(i, j) ==
    Cardinality(SliceRange(Len(ck_text), ck_windows[i][1], ck_windows[i][2])
                \cap SliceRange(Len(ck_text), ck_windows[j][1], ck_windows[j][2]))

ValidConfig == 0 <= ck_overlap /\ ck_overlap < ck_chunk_size

\* C3: chunking the 2500-character text without periods with
\* chunk_size=1000, overlap=200 returns exactly 3 chunks.
C3_ThreeChunks ==
    (/\ ck_pc = "done"
     /\ ck_text = LongText
     /\ ck_chunk_size = DefaultChunkSize
     /\ ck_overlap = DefaultOverlap)
    => Len(ck_result) = 3

\* C4: with 0 <= overlap < chunk_size the start offsets of the chunks are
\* non-decreasing in the order they are produced, and any two chunks share at
\* most overlap characters of the text.
C4_OffsetsMonotoneOverlapBounded ==
    ValidConfig =>
        \A i, j \in 1..Len(ck_windows) :
            i < j => /\ ck_windows[i][1] <= ck_windows[j][1]
                     /\ Shared(i, j) <= ck_overlap

\* C5: with 0 <= overlap < chunk_size every loop iteration leaves the next
\* window start non-negative and strictly greater than the current one.
C5_LoopProgress ==
    [][(ValidConfig /\ Len(ck_windows') > Len(ck_windows))
          => (ck_start' >= 0 /\ ck_start' > ck_start)]_vars

\* C6: a call with overlap >= chunk_size is rejected: the loop is never
\* entered, no chunk is produced and the call returns an error outcome.
C6_BadOverlapRejected ==
    (ck_pc # "off" /\ ck_overlap >= ck_chunk_size) =>
        /\ ck_windows = << >>
        /\ ck_chunks = << >>
        /\ ck_pc = "done" => ck_result = "error"

-----------------------------------------------------------------------------
(* Index claims *)

\* metadata.document_id of a stored record
Tag(record) == record.metadata["document_id"]

Returned(t, op) == calls[t].op = op /\ calls[t].pc = "done"

InProgress(t) == calls[t].pc \notin {"idle", "done"}

\* C7: every record stored by add_document(document_id, text, metadata)
\* carries metadata.document_id = document_id, whatever the metadata map
\* holds; the call stores exactly one record per non-empty chunk, and no two
\* records share a key.
C7_AddTagsDocumentId ==
    \A t \in Threads :
        (Returned(t, "add") /\ calls[t].result = TRUE) =>
            LET b == calls[t].batch
            IN  /\ \A i \in 1..Len(b) :
                       /\ b[i].id \in DOMAIN vector_store
                       /\ vector_store[b[i].id].content = b[i].content
                       /\ b[i].content # << >>
                       /\ Tag(vector_store[b[i].id]) = calls[t].document_id
                /\ \A i, j \in 1..Len(b) : i # j => b[i].id # b[j].id

\* C8: remove_document(d) leaves every record whose metadata.document_id
\* differs from d unchanged (key, text, embedding, metadata), adds nothing,
\* and, when the collection does not raise, deletes every record whose
\* metadata.document_id equals d.
C8_RemoveDeletesTaggedOnly ==
    Returned(1, "remove") =>
        LET d == calls[1].document_id
            before == calls[1].before
        IN  /\ \A id \in DOMAIN before :
                   Tag(before[id]) # d =>
                       id \in DOMAIN vector_store /\ vector_store[id] = before[id]
            /\ DOMAIN vector_store \subseteq DOMAIN before
            /\ ~calls[1].raised =>
                   \A id \in DOMAIN vector_store : Tag(vector_store[id]) # d

\* a remove_document(d) that found records of d and of another document
\* has returned True
C8_Witness ==
    /\ Returned(1, "remove")
    /\ calls[1].result = TRUE
    /\ \E id \in DOMAIN calls[1].before :
           Tag(calls[1].before[id]) = calls[1].document_id
    /\ \E id \in DOMAIN calls[1].before :
           Tag(calls[1].before[id]) # calls[1].document_id

\* the current call follows directly a remove_document of the same
\* document_id that returned True
SecondRemove ==
    /\ ix_prev.op = "remove"
    /\ ix_prev.document_id = calls[1].document_id
    /\ ix_prev.result = TRUE

\* C9: a remove_document(d) that runs without the collection raising
\* returns True; issued directly after a successful remove_document(d), or
\* for a d without records, it leaves the index exactly as it found it.
C9_RemoveIdempotent ==
    (Returned(1, "remove") /\ ~calls[1].raised) =>
        /\ calls[1].result = TRUE
        /\ SecondRemove => vector_store = calls[1].before
        /\ StoreGetIds(calls[1].before, calls[1].document_id) = {}
               => vector_store = calls[1].before

\* the second of two remove_document(d) has returned, the first one having
\* deleted records
C9_Witness ==
    /\ Returned(1, "remove")
    /\ ~calls[1].raised
    /\ SecondRemove
    /\ ix_prev.ids # {}

\* C10: at most one add_document / remove_document per document_id is in
\* progress at any time, and once an add_document(d) and a
\* remove_document(d) have both returned True the index holds all records
\* of that add or no record tagged d.
C10_SerializedPerDocument ==
    \A t, u \in Threads :
        t # u =>
            /\ (InProgress(t) /\ InProgress(u))
                   => calls[t].document_id # calls[u].document_id
            /\ (/\ Returned(t, "add") /\ calls[t].result = TRUE
                /\ Returned(u, "remove") /\ calls[u].result = TRUE
                /\ calls[t].document_id = calls[u].document_id)
               => \/ \A i \in 1..Len(calls[t].batch) :
                         calls[t].batch[i].id \in DOMAIN vector_store
                  \/ \A id \in DOMAIN vector_store :
                         Tag(vector_store[id]) # calls[t].document_id

\* the records tagged document_id
Tagged(store, document_id) ==
    [id \in StoreGetIds(store, document_id) |-> store[id]]

\* the thread takes a step of a call on document_id
StepsOn(t, document_id) ==
    calls'[t] # calls[t] /\ calls'[t].document_id = document_id

\* C11: a step of an add_document or remove_document on d1 (a failing add
\* included) changes neither the set of records tagged d2 # d1 nor the
\* result of any search filtered to d2, so both are as if no operation on
\* d1 had taken place.
C11_OtherDocumentsUntouched ==
    [][\A t \in Threads, d1 \in DocIds, d2 \in DocIds :
          (d1 # d2 /\ StepsOn(t, d1)) =>
              /\ Tagged(vector_store', d2) = Tagged(vector_store, d2)
              /\ \A dist \in DistTables, q \in Queries, k \in SearchLimits :
                     SearchDocumentClauses(vector_store', dist, d2, q, k)
                         = SearchDocumentClauses(vector_store, dist, d2, q, k)]_vars


-----------------------------------------------------------------------------
(* Search claims *)

SxReturned(op) == sx_pc = "done" /\ sx_call.op = op

\* the positions of the results whose distance is below 0.8
BelowThreshold(results) ==
    {i \in 1..Len(results) : results[i].similarity_score < RelevanceThreshold}

\* the j-th smallest element of a set of positions
Nth(positions, j) ==
    CHOOSE i \in positions : Cardinality({x \in positions : x <= i}) = j

\* results is the top k of the records tagged document_id, nearest first
IsTopOfDocument(results, store, dist, document_id, query, k) ==
    LET tagged == StoreGetIds(store, document_id)
    IN  /\ Len(results) = Min(k, Cardinality(tagged))
        /\ \A i \in 1..Len(results) :
               /\ results[i].metadata["document_id"] = document_id
               /\ \E id \in tagged :
                      /\ store[id].content = results[i].content
                      /\ store[id].metadata = results[i].metadata
                      /\ dist[<<query, store[id].content>>] = results[i].similarity_score
        /\ \A i, j \in 1..Len(results) :
               /\ i < j => results[i].similarity_score <= results[j].similarity_score
               /\ i # j => results[i].metadata # results[j].metadata
        /\ \A id \in tagged :
               (\A i \in 1..Len(results) : results[i].metadata # store[id].metadata)
                   => \A i \in 1..Len(results) :
                          results[i].similarity_score <= dist[<<query, store[id].content>>]

\* C12: get_document_context returns the contents of exactly those of the
\* top max_chunks results restricted to document_id whose distance is
\* strictly below 0.8, in ranked order, separated by a blank line; it
\* returns the empty string if and only if no retrieved record has a
\* distance below 0.8, a failing or empty search included.
C12_ContextIsRelevantTop ==
    SxReturned("get_document_context") =>
        LET results == IF sx_raised THEN << >> ELSE sx_found
            below == BelowThreshold(results)
        IN  /\ ~sx_raised =>
                   IsTopOfDocument(sx_found, vector_store, sx_dist,
                                   sx_call.document_id, sx_call.query, sx_call.k)
            /\ sx_result = Join([j \in 1..Cardinality(below) |->
                                    results[Nth(below, j)].content],
                                <<"\n", "\n">>)
            /\ (sx_result = << >>) <=> (below = {})

\* get_document_context has returned one part out of two results: the one
\* at distance 0.8 was left out
C12_Witness ==
    /\ SxReturned("get_document_context")
    /\ ~sx_raised
    /\ Len(sx_found) = 2
    /\ \E i \in 1..2 : sx_found[i].similarity_score = RelevanceThreshold
    /\ Cardinality(BelowThreshold(sx_found)) = 1
    /\ sx_result # << >>

\* C19: when the embedding service or the store raises during an index
\* operation, the operation returns its failure value instead of raising:
\* False for add_document and remove_document, the empty list for
\* search_similar_documents, search_document_clauses and
\* find_similar_clauses, the empty string for get_document_context.
C19_FailureValues ==
    /\ \A t \in Threads :
           (calls[t].pc = "done" /\ calls[t].raised) =>
               /\ calls[t].op \in {"add", "remove"}
               /\ calls[t].result = FALSE
    /\ (sx_pc = "done" /\ sx_raised) =>
           /\ sx_call.op \in SearchOps
           /\ sx_result = << >>

\* remove_document has returned False after the collection raised in
\* delete, the get having found records
C19_Witness ==
    /\ sx_pc = "idle"
    /\ calls[1].pc = "done"
    /\ calls[1].op = "remove"
    /\ calls[1].raised
    /\ calls[1].ids # {}
    /\ calls[1].result = FALSE

-----------------------------------------------------------------------------
(* Page claims *)

Handled(name) == ap_pc = "idle" /\ ap_handler.name = name

\* the handler has called fn
Called(fn) == \E i \in 1..Len(ap_trace) : ap_trace[i].fn = fn

\* C13: every answered question is preceded, within the same ask_question
\* call, by an index search filtered to the current document's id, and the
\* document text given to answer_question is the context of that search.
C13_AnswerFollowsSearch ==
    Handled("ask_question") =>
        \A i \in 1..Len(ap_trace) :
            ap_trace[i].fn = "answer_question" =>
                \E j \in 1..(i - 1) :
                    /\ ap_trace[j].fn \in {"get_document_context", "search_document_clauses"}
                    /\ ap_trace[j].document_id = current_document.id

\* C14: once delete_document(doc_id) has been invoked for a document that
\* was uploaded and indexed, the document is no longer in the library and
\* the index holds no record tagged doc_id.
C14_DeletePurgesIndex ==
    Handled("delete_document") =>
        /\ ap_handler.arg \notin LibraryIds
        /\ StoreGetIds(vector_store, ap_handler.arg) = {}

\* the extracted text is empty or whitespace only
ExtractedBlank ==
    /\ Called("extract_text")
    /\ \A i \in 1..Len(ap_up.text) : IsSpace(ap_up.text[i])

\* C17: when extraction returns an empty or whitespace-only text, the
\* upload stops before classification: detect_document_type,
\* analyze_document_risk, simplify_text, generate_summary and add_document
\* are not called, and current_document and the library stay as they were.
C17_BlankTextHaltsUpload ==
    (ap_handler.name = "process_uploaded_document" /\ ExtractedBlank) =>
        /\ ap_pc = "idle"
        /\ \A fn \in {"detect_document_type", "analyze_document_risk", "simplify_text",
                       "generate_summary", "add_document"} : ~Called(fn)
        /\ current_document = ap_handler.current_document
        /\ documents_library = ap_handler.documents_library

\* a second upload has stopped on a whitespace-only text
C17_Witness ==
    /\ Handled("process_uploaded_document")
    /\ ExtractedBlank
    /\ ap_up.text # << >>
    /\ Len(documents_library) = 1

\* the index failed during the upload: VectorStoreService() or add_document
IndexFailed ==
    \E i \in 1..Len(ap_trace) :
        /\ ap_trace[i].fn \in {"VectorStoreService", "add_document"}
        /\ ap_trace[i].raised

\* C18: for every index failure during an upload (the index service
\* unavailable when it is opened, or add_document failing), the pipeline is
\* not aborted and does not raise: risk data, simplified text and summary
\* are stored as current_document and the document is appended to the
\* library.
C18_IndexFailureTolerated ==
    (Handled("process_uploaded_document") /\ IndexFailed) =>
        /\ ~ap_raised
        /\ ap_up.doc_id # "none"
        /\ current_document.id = ap_up.doc_id
        /\ current_document.risk_data = ap_up.risk_data
        /\ current_document.simplified_text = ap_up.simplified_data.simplified_text
        /\ current_document.summary = ap_up.summary
        /\ Len(documents_library) = Len(ap_handler.documents_library) + 1
        /\ documents_library[Len(documents_library)].id = ap_up.doc_id

\* C26: every answered question appends one exchange to the history of the
\* document it was asked about, and the history shown for a document holds
\* only exchanges asked about that document, whatever questions, document
\* switches, uploads and chat clearings came before.
C26_HistoryPerDocument ==
    /\ Len(qa_asked) = Len(qa_history)
    /\ (ap_pc = "idle" /\ current_document.id # "none") =>
           \A i \in DOMAIN qa_history : qa_asked[i] = current_document.id

-----------------------------------------------------------------------------
(* Extraction claims *)

\* C15: on every exit path of extract_text_from_pdf and
\* extract_text_from_docx, the one where the loader raises included, the
\* temporary file has been deleted when the function returns.
C15_TempFileReleased ==
    ex_pc = "done" => temp_files = {}

Supported == {ExtPdf, ExtTxt, ExtDocx, ExtDoc}

\* e is the lower-cased filename's part after its last dot (the whole of
\* it when there is no dot)
IsExtension(e, filename) ==
    LET name == StrLower(filename)
        n == Len(name) - Len(e)
    IN  /\ n >= 0
        /\ e = SubSeq(name, n + 1, Len(name))
        /\ \A i \in 1..Len(e) : e[i] # "."
        /\ n > 0 => name[n] = "."

\* the value is a str
IsStr(v) == DOMAIN v = 1..Len(v)

\* C16: extract_text returns a string and never raises; an extension other
\* than pdf, txt, docx, doc (lower-cased part after the last dot) gives the
\* empty string, and so does a failure inside an extractor.
C16_ExtractReturnsString ==
    ex_pc = "done" =>
        /\ IsStr(ex_result)
        /\ \A n \in 0..Len(ex_call.filename) :
               LET e == SubSeq(StrLower(ex_call.filename),
                               Len(ex_call.filename) - n + 1, Len(ex_call.filename))
               IN  (IsExtension(e, ex_call.filename) /\ e \notin Supported)
                       => ex_result = << >>
        /\ ex_failed => ex_result = << >>

\* extract_text has returned "" for a.pdf.exe
C16_Witness ==
    /\ ex_pc = "done"
    /\ ex_call.filename = <<"a", ".", "p", "d", "f", ".", "e", "x", "e">>
    /\ ex_result = << >>

\* the utf-8 decoding with U+FFFD in the place of every invalid byte
Substituted(b) ==
    [i \in 1..Len(b) |-> IF b[i] < 128 THEN Chr(b[i]) ELSE Chr(65533)]

\* C30: TXT extraction returns the payload decoded with the first of utf-8,
\* utf-16, latin-1, cp1252 that accepts it, and the utf-8 decoding with
\* invalid bytes substituted only when none of the four accepts it; it
\* reports no failure, and returns the empty string only for a payload that
\* holds no more than a byte order mark.
C30_FirstAcceptedEncoding ==
    (ex_pc = "done" /\ FileExt(ex_call.filename) = ExtTxt) =>
        LET b == ex_call.file_content
            tries == <<DecodeUtf8(b), DecodeUtf16(b), DecodeLatin1(b), DecodeCp1252(b)>>
        IN  /\ \A e \in 1..4 :
                   (tries[e].ok /\ \A d \in 1..(e - 1) : ~tries[d].ok)
                       => ex_result = tries[e].text
            /\ (\A e \in 1..4 : ~tries[e].ok) => ex_result = Substituted(b)
            /\ ~ex_failed
            /\ ex_result = << >> => b \in {<< >>, BomLE, BomBE}

\* C30 witness: a TXT payload that utf-8 and utf-16 reject has been returned
\* in its latin-1 decoding
C30_Witness ==
    /\ ex_pc = "done"
    /\ FileExt(ex_call.filename) = ExtTxt
    /\ ~DecodeUtf8(ex_call.file_content).ok
    /\ ~DecodeUtf16(ex_call.file_content).ok
    /\ ex_result = DecodeLatin1(ex_call.file_content).text
    /\ ex_result # << >>

-----------------------------------------------------------------------------
(* Analyzer claims *)

\* the sentences of a text that carry a risk keyword and are longer than
\* 20 characters after trimming, in order
RiskSentences(text) ==
    LET sentences == Split(text, <<".">>)
    IN  SelectSeq([i \in DOMAIN sentences |-> StrStrip(sentences[i])], IsRiskSentence)

ParsesToObject(response) ==
    LET parsed == JsonLoads(Cleaned(response))
    IN  parsed.ok /\ parsed.is_dict

\* C20: for a response that does not parse to a JSON object,
\* analyze_document_risk returns a dict with the keys risk_factors and
\* overall_assessment whose risk_factors holds one entry of category
\* standard and severity medium for each of the first at most 5 sentences
\* of the response that carry a risk keyword and are longer than 20
\* characters after trimming; the list is non-empty when such a sentence
\* exists.
C20_FallbackListsRiskSentences ==
    (/\ an_pc = "done" /\ an_op = "analyze_document_risk"
     /\ ~an_raised /\ ~ParsesToObject(an_response)) =>
        /\ {"risk_factors", "overall_assessment"} \subseteq DOMAIN an_result
        /\ Len(an_result.risk_factors) =
               Min(FallbackLimit, Len(RiskSentences(an_response)))
        /\ \A i \in DOMAIN an_result.risk_factors :
               /\ an_result.risk_factors[i].category = "standard"
               /\ an_result.risk_factors[i].severity = "medium"
        /\ RiskSentences(an_response) # << >> => an_result.risk_factors # << >>

\* C21: when the cleaned response parses to a JSON object,
\* analyze_document_risk returns that object with risk_factors and
\* overall_assessment present: the keys of the object keep their values, a
\* missing risk_factors is the empty list, a missing overall_assessment a
\* generic string; a parsed value that is not an object goes to the
\* fallback; and a fenced form of an object gives the result of its
\* unfenced form.
C21_ParsedObjectReturned ==
    (an_pc = "done" /\ an_op = "analyze_document_risk" /\ ~an_raised) =>
        LET parsed == JsonLoads(Cleaned(an_response))
        IN  /\ (parsed.ok /\ parsed.is_dict) =>
                   /\ {"risk_factors", "overall_assessment"} \subseteq DOMAIN an_result
                   /\ \A key \in DOMAIN parsed.value : an_result[key] = parsed.value[key]
                   /\ "risk_factors" \notin DOMAIN parsed.value =>
                          an_result.risk_factors = << >>
                   /\ "overall_assessment" \notin DOMAIN parsed.value =>
                          an_result.overall_assessment = "Analysis completed"
            /\ (parsed.ok /\ ~parsed.is_dict) =>
                   an_result = ExtractRiskFallback(Cleaned(an_response))
            /\ \A d \in JsonDocs :
                   (d.is_dict /\ an_response \in FormsOf(d.text)) =>
                       an_result = ParseRisk(Unfenced(d.text))

\* C22: when the chain raises, the method returns its fixed default, whether
\* or not the call before failed: simplify_text a dict of three keys, with
\* at most the first 500 characters of the text and a marker, one marker
\* point and no jargon definitions; generate_summary "Unable to generate
\* summary"; answer_question its apology, for an empty document text too.
\* A call whose chain answers after a failed call returns from that answer.
C22_FailureDefaults ==
    /\ (an_pc = "done" /\ an_raised /\ an_op = "simplify_text") =>
           /\ DOMAIN an_result = {"simplified_text", "key_points", "jargon_definitions"}
           /\ an_result.simplified_text =
                  SubSeq(an_text, 1, Min(500, Len(an_text))) \o <<".", ".", ".">>
           /\ Len(an_result.key_points) = 1
           /\ an_result.jargon_definitions = << >>
    /\ (an_pc = "done" /\ an_raised /\ an_op = "generate_summary") =>
           an_result = SummaryFailed
    /\ (an_pc = "done" /\ an_raised /\ an_op = "answer_question") =>
           an_result = AnswerFailed
    /\ (/\ an_pc = "done" /\ ~an_raised /\ an_prev_raised
        /\ an_op \in {"generate_summary", "answer_question"}) =>
           an_result = StrStrip(an_response)

\* simplify_text failed on a text longer than 500 characters, right after
\* another call had failed
C22_Witness ==
    /\ an_pc = "done" /\ an_raised /\ an_prev_raised
    /\ an_op = "simplify_text"
    /\ Len(an_text) > 500
    /\ Len(an_result.simplified_text) = 503

-----------------------------------------------------------------------------
(* Classifier claims *)

\* C23: the classifier returns other exactly when no category scores more
\* than 2; otherwise it returns a category of the highest score, the first
\* of them in the order rental, loan, employment, nda, service.
C23_HighestScoreFirstWins ==
    dt_pc = "done" =>
        LET scores == Scores(dt_text)
        IN  /\ dt_result = "other" <=> \A i \in DOMAIN scores : scores[i] <= 2
            /\ dt_result # "other" =>
                   \E i \in DOMAIN Categories :
                       /\ dt_result = Categories[i]
                       /\ \A j \in DOMAIN scores : scores[j] <= scores[i]
                       /\ \A j \in 1..(i - 1) : scores[j] < scores[i]

\* rental and loan share the highest score 3 and rental is returned
C23_Witness ==
    /\ dt_pc = "done"
    /\ Scores(dt_text)[1] = 3
    /\ Scores(dt_text)[2] = 3
    /\ dt_result = "rental"

\* the number of places of text_lower where a keyword of the list starts
OccurrenceScore(keywords, text_lower) ==
    LET occurrences(keyword) ==
            Cardinality({i \in 0..(Len(text_lower) - Len(keyword)) :
                SubSeq(text_lower, i + 1, i + Len(keyword)) = keyword})
        sum[n \in 0..Len(keywords)] ==
            IF n = 0 THEN 0 ELSE sum[n - 1] + occurrences(keywords[n])
    IN  sum[Len(keywords)]

\* C24: the score of a category is the number of occurrences of its
\* keywords in the lower-cased text, every occurrence counted; a text in
\* which only rental keywords occur, more than 2 times in total, is
\* classified rental.
C24_EveryOccurrenceCounts ==
    dt_pc = "done" =>
        LET occ == [i \in DOMAIN Categories |->
                        OccurrenceScore(KeywordsOf(Categories[i]), StrLower(dt_text))]
        IN  /\ Scores(dt_text) = occ
            /\ (occ[1] > 2 /\ \A i \in 2..Len(Categories) : occ[i] = 0) =>
                   dt_result = "rental"

-----------------------------------------------------------------------------
(* Risk score claims *)

\* the weight the claim gives a factor
ClaimedWeight(factor) ==
    IF "severity" \notin DOMAIN factor THEN 3
    ELSE LET severity == StrLower(factor.severity)
         IN  CASE severity = <<"c", "r", "i", "t", "i", "c", "a", "l">> -> 25
               [] severity = <<"h", "i", "g", "h">> -> 15
               [] severity = <<"m", "e", "d", "i", "u", "m">> -> 8
               [] severity = <<"l", "o", "w">> -> 3
               [] OTHER -> 0

ClaimedSum(factors) ==
    LET sum[n \in 0..Len(factors)] ==
            IF n = 0 THEN 0 ELSE sum[n - 1] + ClaimedWeight(factors[n])
    IN  sum[Len(factors)]

\* C25: calculate_risk_score returns min(100, sum of the weights critical
\* 25, high 15, medium 8, low 3, severity compared without case, a missing
\* severity as low, an unknown one as 0); the result is in 0..100, adding a
\* factor never lowers it, one critical and one high give 40, eight
\* critical give 100.
C25_ScoreIsCappedSum ==
    rs_pc = "on" =>
        /\ rs_score = Min(100, ClaimedSum(rs_factors))
        /\ rs_score \in 0..100
        /\ rs_prev <= rs_score
        /\ rs_factors = <<ScoredFactors[1], ScoredFactors[2]>> => rs_score = 40
        /\ rs_factors = [i \in 1..8 |-> ScoredFactors[1]] => rs_score = 100

\* eight critical factors are scored 100, the call before gave 100 too
C25_Witness ==
    /\ rs_pc = "on"
    /\ rs_factors = [i \in 1..8 |-> ScoredFactors[1]]
    /\ rs_score = 100
    /\ rs_prev = 100

-----------------------------------------------------------------------------
(* Annotator claims *)

\* C27: for every risk_factors and jargon_definitions a parsed response can
\* hold (null or absent severity, explanation, suggestion; entries that are
\* no objects; definitions that are no strings) the call returns markup and
\* does not raise: no call ends in an exception
C27_NeverRaises == hl_pc # "raised"

\* the opening tag a replacement inserts in front of its text
OpenTagOf(rep) ==
    SubSeq(rep.replacement, 1,
           Len(rep.replacement) - Len(rep.original) - Len(CloseTag))

\* the jargon replacements that are applied
AppliedJargon == Take(jargon_replacements, MaxJargonSpans)

\* the tags create_advanced_highlighting has inserted
InsertedTags ==
    {OpenTagOf(risk_replacements[i]) : i \in 1..Len(risk_replacements)}
    \cup {OpenTagOf(AppliedJargon[i]) : i \in 1..Len(AppliedJargon)}
    \cup {CloseTag}

\* the text with every occurrence of one of the tags deleted
RECURSIVE StripTags(_, _)
StripTags(s, tags) ==
    IF s = << >> THEN << >>
    ELSE LET here == {t \in tags : Len(t) <= Len(s) /\ SubSeq(s, 1, Len(t)) = t}
         IN  IF here = {}
             THEN <<Head(s)>> \o StripTags(Tail(s), tags)
             ELSE LET t == CHOOSE x \in here : \A y \in here : Len(y) <= Len(x)
                  IN  StripTags(SubSeq(s, Len(t) + 1, Len(s)), tags)

Disjoint(s1, e1, s2, e2) == e1 <= s2 \/ e2 <= s1

\* where the i-th risk replacement lies in the text once all risk
\* replacements are applied: its start moves right by what the replacements
\* that start before it insert
RiskSpanStart(i) ==
    LET before == {j \in 1..Len(risk_replacements) :
                      risk_replacements[j].start < risk_replacements[i].start}
        RECURSIVE Inserted(_)
        Inserted(js) ==
            IF js = {} THEN 0
            ELSE LET j == CHOOSE x \in js : TRUE
                 IN  Len(risk_replacements[j].replacement)
                     - (risk_replacements[j].end - risk_replacements[j].start)
                     + Inserted(js \ {j})
    IN  risk_replacements[i].start + Inserted(before)

\* C1: deleting every inserted <span ...> opening tag and every </span>
\* from the returned markup yields exactly the input text.
C1_VisibleTextUnchanged ==
    hl_pc = "done" => StripTags(highlighted_text, InsertedTags) = hl_text

\* C2: no two emitted spans intersect: the risk spans are pairwise disjoint,
\* the jargon spans are pairwise disjoint, and no jargon span intersects a
\* risk span.
C2_SpansDisjoint ==
    hl_pc = "done" =>
        /\ \A i, j \in 1..Len(risk_replacements) :
               i # j => Disjoint(risk_replacements[i].start, risk_replacements[i].end,
                                 risk_replacements[j].start, risk_replacements[j].end)
        /\ \A i, j \in 1..Len(AppliedJargon) :
               i # j => Disjoint(AppliedJargon[i].start, AppliedJargon[i].end,
                                 AppliedJargon[j].start, AppliedJargon[j].end)
        /\ \A i \in 1..Len(AppliedJargon), j \in 1..Len(risk_replacements) :
               Disjoint(AppliedJargon[i].start, AppliedJargon[i].end,
                        RiskSpanStart(j),
                        RiskSpanStart(j) + Len(risk_replacements[j].replacement))

\* the risk replacements cover pairwise disjoint ranges of the text
RiskSpansApart ==
    \A i, j \in 1..Len(risk_replacements) :
        i # j => Disjoint(risk_replacements[i].start, risk_replacements[i].end,
                          risk_replacements[j].start, risk_replacements[j].end)

\* the n characters from p on lie inside a risk span of the annotated text
InRiskSpan(p, n) ==
    \E j \in 1..Len(risk_replacements) :
        /\ RiskSpanStart(j) <= p
        /\ p + n <= RiskSpanStart(j) + Len(risk_replacements[j].replacement)

\* the n characters from p on were collected for a jargon span
JargonCandidate(p, n) ==
    \E k \in 1..Len(jargon_replacements) :
        jargon_replacements[k].start = p /\ jargon_replacements[k].end = p + n

\* C28: once the jargon pass has collected its candidates, a whole-word,
\* case-insensitive occurrence of a term of three or more characters in the
\* risk-annotated text is a candidate exactly when it does not lie inside a
\* risk span (the risk spans being apart from each other).
C28_SkippedIffInsideRiskSpan ==
    (hl_pc = "apply_jargon" /\ RiskSpansApart) =>
        \A i \in 1..Len(jargon_definitions) :
            LET term == jargon_definitions[i][1]
            IN  Len(term) >= MinTermLen =>
                    \A p \in 0..(Len(highlighted_text) - Len(term)) :
                        MatchAt(highlighted_text, term, p) =>
                            (JargonCandidate(p, Len(term)) <=> ~InRiskSpan(p, Len(term)))

\* the opening tags of jargon spans in the returned markup
JargonSpanCount ==
    CountBefore(highlighted_text, JargonOpenHead, Len(highlighted_text))

\* the returned markup holds a jargon span whose tooltip is that of the term
HasSpanFor(term) ==
    LET head == JargonOpenHead \o term \o ColonSpace
    IN  CountBefore(highlighted_text, head, Len(highlighted_text)) > 0

\* C29: the returned markup holds at most 5 jargon spans, however many terms
\* and occurrences there are, and no jargon span for a term of fewer than 3
\* characters.
C29_JargonSpansCapped ==
    hl_pc = "done" =>
        /\ JargonSpanCount <= 5
        /\ \A i \in 1..Len(jargon_definitions) :
               Len(jargon_definitions[i][1]) < 3 => ~HasSpanFor(jargon_definitions[i][1])

\* C29 witness: a call has returned for a text with more occurrences of a
\* term than are highlighted and a dict that also holds a two-character
\* term; five jargon spans are in the markup
C29_Witness ==
    /\ hl_pc = "done"
    /\ Len(jargon_replacements) > 5
    /\ JargonSpanCount = 5
    /\ \E i \in 1..Len(jargon_definitions) : Len(jargon_definitions[i][1]) < 3

====
